---- MODULE Spec2Model ----
(***************************************************************************)
(* Request-execution layer of the Firestore client (src/src/index.js):     *)
(*   - Firestore.runTransaction : begin / run / commit / rollback with     *)
(*     bounded retry on commit failure          (specification SpecTxn)    *)
(*   - Firestore._retry driven by request / readStream / readWriteStream   *)
(*                                              (specification SpecRetry)  *)
(*   - Firestore._initializeStream : the stream-health protocol            *)
(*                                              (specification SpecStream) *)
(*   - Firestore.getAll_ on a released stream   (specification SpecBatchGet)*)
(*   - the ClientPool behind _runRequest        (specification SpecPool)   *)
(*   - settings, _runRequest, _initClientPool and _decorateRequest of one   *)
(*     Firestore instance                       (specification SpecInstance)*)
(* Promises are modelled by the position of the chain (a pc) and by the    *)
(* settled outcome; every backend answer is an input chosen by the         *)
(* environment when the pending call settles.                              *)
(***************************************************************************)
EXTENDS Integers, Sequences, FiniteSets, TLC

VARIABLES
    \* ---- runTransaction ----
    tpc,                  \* position of the promise chain of runTransaction
    optMaxAttempts,       \* transactionOptions.maxAttempts of the caller (0 = not given)
    optPrevious,          \* transactionOptions.previousTransaction of the caller
    attemptsRemaining,    \* runTransaction's local attemptsRemaining
    previousTransaction,  \* previousTransaction handed to new Transaction() (0 = none)
    transaction,          \* identity of the current Transaction object (0 = none yet)
    result,               \* the promise `result` of the current attempt
    txOutcome,            \* the promise returned by runTransaction to the caller
    begins,               \* outcomes of transaction.begin(), one per call
    userCalls,            \* outcomes of updateFunction(transaction), one per call
    commits,              \* outcomes of transaction.commit(), one per call
    rollbacks,            \* outcomes of transaction.rollback(), one per call
    \* ---- request / readStream / readWriteStream + _retry ----
    rpc,                  \* position of the promise chain of _retry
    method,               \* which funnel was called
    allowRetries,         \* its allowRetries argument
    retryAttemptsRemaining, \* _retry's attemptsRemaining
    currentDelay,         \* _retry's currentDelay
    nextDelay,            \* _retry's nextDelay
    invocations,          \* number of times func was invoked
    results,              \* outcomes of func, one per settled invocation
    remainingLog,         \* value of attemptsRemaining at each invocation of func
    delays,               \* delay passed to setTimeout before each invocation
    now,                  \* the clock read by new Date().getTime()
    lastSuccessfulRequest,\* this._lastSuccessfulRequest (<<>> = null)
    reqOutcome,           \* the promise returned to the caller
    attemptStreams,       \* the transport stream func opened at each invocation
                          \* (readStream and readWriteStream only)
    \* ---- _initializeStream and its consumer getAll_ ----
    opened,               \* _initializeStream has been called on resultStream
    hasRequest,           \* whether its `request` argument is defined
    acked,                \* the callback of resultStream.write() has run
    stream,               \* errorReceived, streamReleased, endCalled, the
                          \* returned Promise and resultStream's read state
    attached,             \* the consumer has registered its listeners
    signals,              \* the signals of the transport, in arrival order
    consumerEvents,       \* the events the consumer's listeners were called with
    docRefs,              \* getAll_'s docRefs (paths, in the caller's order)
    requestDocuments,     \* request.documents as sent to batchGetDocuments
    retrievedDocuments,   \* getAll_'s Map from path to snapshot
    getAllOutcome,        \* the Promise getAll_ builds around the stream
    \* ---- the ClientPool of _initClientPool ----
    concurrentOperationLimit, \* the ceiling handed to the pool (0 = no pool yet)
    activeClients,        \* in-flight operations of each handle, in creation order
    lastRun,              \* the handle the last run() used, whether every handle
                          \* was at the ceiling before, whether it is a new one
    lastSettled,          \* how the last operation that settled ended
    unsettled,            \* per handle, the operations invoked on it whose
                          \* Promise has not settled
    \* ---- one Firestore instance: settings and client initialization ----
    settingsFrozen,       \* this._settingsFrozen
    clientInitialized,    \* this._clientInitialized: "null" or the state of
                          \* the Promise
    initalizationSettings,\* this._initalizationSettings (sic)
    referencePath,        \* projectId of this._referencePath (0 = '{{projectId}}')
    timestampsInSnapshotsEnabled, \* this._timestampsInSnapshotsEnabled
    clientPool,           \* whether this._clientPool has been assigned
    detection,            \* the Promise of _detectProjectId ("none" = not called)
    initCalls,            \* number of calls of _initClientPool
    settingsCalls,        \* number of calls of settings()
    settingsApplied,      \* number of calls of settings() that returned
    lastSettings,         \* how the last call of settings() ended
    requests,             \* the calls of _runRequest(op): where each stands,
                          \* the request it was given, what its op sent
    \* one call of request / readStream / readWriteStream on the pool
    callPc,               \* where the call stands
    callMethod,           \* "request", "readStream" or "readWriteStream"
    callAllowRetries,     \* its allowRetries argument
    callRequest,          \* its request argument
    gapicClient,          \* the handle the pool passed to the op (0: none)
    decorated,            \* <<>> or <<d>>: `const decorated` of the op
    callAttemptsRemaining,\* attemptsRemaining of the running _retry
    callAttempts,         \* per invocation of func: handle, payload, stream
    opOutcome,            \* the Promise the op returned to the pool
    callOutcome,          \* the Promise the funnel returned to its caller
    streamEnded,          \* the stream handed to the caller has ended
    otherOperations       \* per handle: unsettled operations of other calls

txnVars == <<tpc, optMaxAttempts, optPrevious, attemptsRemaining,
             previousTransaction,
             transaction, result, txOutcome, begins, userCalls, commits,
             rollbacks>>

retryVars == <<rpc, method, allowRetries, retryAttemptsRemaining, currentDelay,
               nextDelay, invocations, results, remainingLog, delays, now,
               lastSuccessfulRequest, reqOutcome, attemptStreams>>

streamVars == <<opened, hasRequest, acked, stream, attached, signals,
                consumerEvents, docRefs, requestDocuments, retrievedDocuments,
                getAllOutcome>>

poolVars == <<concurrentOperationLimit, activeClients, lastRun, lastSettled,
              unsettled>>

instanceVars == <<settingsFrozen, clientInitialized, initalizationSettings,
                  referencePath, timestampsInSnapshotsEnabled, clientPool,
                  detection, initCalls, settingsCalls, settingsApplied,
                  lastSettings, requests>>

callVars == <<callPc, callMethod, callAllowRetries, callRequest, gapicClient,
              decorated, callAttemptsRemaining, callAttempts, opOutcome,
              callOutcome, streamEnded, otherOperations>>

vars == <<txnVars, retryVars, streamVars, poolVars, instanceVars, callVars>>

\* everything runTransaction leaves alone
notTxnVars == <<retryVars, streamVars, poolVars, instanceVars, callVars>>

\* everything the request funnels leave alone
notRetryVars == <<txnVars, streamVars, poolVars, instanceVars, callVars>>

\* everything _initializeStream and getAll_ leave alone
notStreamVars == <<txnVars, retryVars, poolVars, instanceVars, callVars>>

\* everything the pool leaves alone
notPoolVars == <<txnVars, retryVars, streamVars, instanceVars, callVars>>

\* everything settings and client initialization leave alone
notInstanceVars == <<txnVars, retryVars, streamVars, poolVars, callVars>>

\* everything a pooled call leaves alone besides the pool and the instance
notCallVars == <<txnVars, retryVars, streamVars>>

(***************************************************************************)
(* Bounds of the model                                                     *)
(***************************************************************************)
\* largest transactionOptions.maxAttempts the caller passes explicitly
MaxBudget == 3
\* number of distinct values a backend call or the user function can yield
MaxValue == 2

Values == 1..MaxValue
\* number of signals (data, readable, end, error, write callback) one
\* transport stream delivers
MaxSignals == 4
\* number of distinct document paths
MaxPaths == 2
\* longest list of document references handed to getAll_
MaxDocs == 2

Paths == 1..MaxPaths
\* largest ceiling of a pool besides the one of the program
MaxCeiling == 3
\* number of operations in flight beyond the ceiling of one handle
MaxExtraOperations == 2
\* number of distinct project ids
MaxProjects == 2
\* number of calls of settings() on one instance
MaxSettingsCalls == 3
\* number of requests issued on one instance
MaxRequests == 2

(***************************************************************************)
(* Program constants                                                       *)
(***************************************************************************)
MAX_REQUEST_RETRIES == 5
MAX_CONCURRENT_REQUESTS_PER_CLIENT == 100
GRPC_UNAVAILABLE == 14
defaultAttempts == 5
\* the codes failing calls carry here: 0 (a defined but falsy code),
\* 10 (ABORTED) and UNAVAILABLE
ErrorCodes == {0, 10, GRPC_UNAVAILABLE}

\* An error object: `op` and `n` give the object its identity (which call
\* of which operation produced it), `hasCode`/`code` are its `code` property.
MkError(op, n, hasCode, code) ==
    [op |-> op, n |-> n, hasCode |-> hasCode, code |-> code]

\* the `code` property of the errors a backend call fails with: one of the
\* sample codes, or no code at all
BackendFailures ==
    {[hasCode |-> TRUE, code |-> c] : c \in ErrorCodes}
        \cup {[hasCode |-> FALSE, code |-> 0]}

\* the `code` property of the errors the application's updateFunction, a
\* begin or a rollback fails with: one with a code and one without
CallFailures ==
    {[hasCode |-> TRUE, code |-> 10], [hasCode |-> FALSE, code |-> 0]}

\* the error object of call number n of operation op failing with f
ErrorOf(op, n, f) == MkError(op, n, f.hasCode, f.code)

Pending == [state |-> "pending"]
Resolved(v) == [state |-> "resolved", val |-> v]
Rejected(e) == [state |-> "rejected", err |-> e]

\* JavaScript's `a || b` on numbers: 0 and undefined (modelled as 0) are falsy
OrElse(a, b) == IF a = 0 THEN b ELSE a

SetLast(s, x) == [s EXCEPT ![Len(s)] = x]
Last(s) == s[Len(s)]

(***************************************************************************)
(* Firestore.runTransaction                                                *)
(***************************************************************************)
\* what the caller may pass as transactionOptions.previousTransaction
\* (0 = not given, -1 = a transaction of the caller's)
CallerPrevious == {0, -1}

InitTxnVars ==
    /\ tpc = "idle"
    /\ optMaxAttempts = 0
    /\ optPrevious = 0
    /\ attemptsRemaining = 0
    /\ previousTransaction = 0
    /\ transaction = 0
    /\ result = Pending
    /\ txOutcome = Pending
    /\ begins = <<>>
    /\ userCalls = <<>>
    /\ commits = <<>>
    /\ rollbacks = <<>>

\* variant: `new Transaction(this)`, the previous transaction is not passed
EnterTransaction_noprev(maxAttempts, prev) ==
    /\ attemptsRemaining' = OrElse(maxAttempts, defaultAttempts) - 1
    /\ previousTransaction' = 0
    /\ transaction' = transaction + 1
    /\ result' = Pending
    /\ begins' = Append(begins, Pending)
    /\ tpc' = "begin"

\* lines 536-556: the attempt budget is read, a Transaction is constructed,
\* the budget is decremented and transaction.begin() is issued.
EnterTransaction(maxAttempts, prev) ==
    /\ attemptsRemaining' = OrElse(maxAttempts, defaultAttempts) - 1
    /\ previousTransaction' = prev
    /\ transaction' = transaction + 1
    /\ result' = Pending
    /\ begins' = Append(begins, Pending)
    /\ tpc' = "begin"

\* the application calls firestore.runTransaction(updateFunction, options)
RunTransaction(maxAttempts, prev) ==
    /\ tpc = "idle"
    /\ optMaxAttempts' = maxAttempts
    /\ optPrevious' = prev
    /\ EnterTransaction(maxAttempts, prev)
    /\ UNCHANGED <<txOutcome, userCalls, commits, rollbacks>>
    /\ UNCHANGED notTxnVars

\* variant: a failed begin is handled like a failed commit and retried
BeginRejected_retry(f) ==
    /\ tpc = "begin"
    /\ IF attemptsRemaining > 0
         THEN /\ attemptsRemaining' = attemptsRemaining - 1
              /\ previousTransaction' = transaction
              /\ transaction' = transaction + 1
              /\ result' = Pending
              /\ begins' = Append(
                    SetLast(begins,
                            Rejected(ErrorOf("begin", transaction, f))),
                    Pending)
              /\ tpc' = "begin"
              /\ UNCHANGED txOutcome
         ELSE /\ begins' = SetLast(begins,
                              Rejected(ErrorOf("begin", transaction, f)))
              /\ txOutcome' = Rejected(ErrorOf("begin", transaction, f))
              /\ tpc' = "done"
              /\ UNCHANGED <<attemptsRemaining, previousTransaction,
                             transaction, result>>
    /\ UNCHANGED <<optMaxAttempts, optPrevious, userCalls, commits, rollbacks>>
    /\ UNCHANGED notTxnVars

\* transaction.begin() rejects: both .then() callbacks are skipped
BeginRejected(f) ==
    /\ tpc = "begin"
    /\ begins' = SetLast(begins, Rejected(ErrorOf("begin", transaction, f)))
    /\ txOutcome' = Rejected(ErrorOf("begin", transaction, f))
    /\ tpc' = "done"
    /\ UNCHANGED <<optMaxAttempts, optPrevious, attemptsRemaining, previousTransaction,
                   transaction, result, userCalls, commits, rollbacks>>
    /\ UNCHANGED notTxnVars

\* transaction.begin() resolves and updateFunction returns a Promise
BeginResolvedPromise ==
    /\ tpc = "begin"
    /\ begins' = SetLast(begins, Resolved(transaction))
    /\ userCalls' = Append(userCalls, Pending)
    /\ result' = Pending
    /\ tpc' = "run"
    /\ UNCHANGED <<optMaxAttempts, optPrevious, attemptsRemaining, previousTransaction,
                   transaction, txOutcome, commits, rollbacks>>
    /\ UNCHANGED notTxnVars

\* the error created when updateFunction does not return a Promise
NoPromiseError(n) == MkError("nopromise", n, FALSE, 0)

\* transaction.begin() resolves and updateFunction returns something that is
\* not a Promise: result is a rejected Promise, its catch handler rolls back
BeginResolvedValue(v) ==
    /\ tpc = "begin"
    /\ begins' = SetLast(begins, Resolved(transaction))
    /\ userCalls' = Append(userCalls, [state |-> "value", val |-> v])
    /\ result' = Rejected(NoPromiseError(transaction))
    /\ rollbacks' = Append(rollbacks, Pending)
    /\ tpc' = "rollback"
    /\ UNCHANGED <<optMaxAttempts, optPrevious, attemptsRemaining, previousTransaction,
                   transaction, txOutcome, commits>>
    /\ UNCHANGED notTxnVars

\* variant: the call of updateFunction is wrapped so that a throw becomes a
\* rejected `result`, which the catch handler rolls back
BeginResolvedThrow_rollback(f) ==
    /\ tpc = "begin"
    /\ begins' = SetLast(begins, Resolved(transaction))
    /\ userCalls' = Append(userCalls, [state |-> "thrown",
                                       err |-> ErrorOf("user", transaction, f)])
    /\ result' = Rejected(ErrorOf("user", transaction, f))
    /\ rollbacks' = Append(rollbacks, Pending)
    /\ tpc' = "rollback"
    /\ UNCHANGED <<optMaxAttempts, optPrevious, attemptsRemaining,
                   previousTransaction, transaction, txOutcome, commits>>
    /\ UNCHANGED notTxnVars

\* transaction.begin() resolves and updateFunction throws: the first .then()
\* rejects with the thrown error, the second .then() is skipped
BeginResolvedThrow(f) ==
    /\ tpc = "begin"
    /\ begins' = SetLast(begins, Resolved(transaction))
    /\ userCalls' = Append(userCalls, [state |-> "thrown",
                                       err |-> ErrorOf("user", transaction, f)])
    /\ txOutcome' = Rejected(ErrorOf("user", transaction, f))
    /\ tpc' = "done"
    /\ UNCHANGED <<optMaxAttempts, optPrevious, attemptsRemaining, previousTransaction,
                   transaction, result, commits, rollbacks>>
    /\ UNCHANGED notTxnVars

\* the Promise returned by updateFunction resolves: result.catch() passes the
\* value on and the second .then() issues transaction.commit()
UserResolved(v) ==
    /\ tpc = "run"
    /\ result' = Resolved(v)
    /\ userCalls' = SetLast(userCalls, Resolved(v))
    /\ commits' = Append(commits, Pending)
    /\ tpc' = "commit"
    /\ UNCHANGED <<optMaxAttempts, optPrevious, attemptsRemaining, previousTransaction,
                   transaction, txOutcome, begins, rollbacks>>
    /\ UNCHANGED notTxnVars

\* variant: the catch handler swallows the rejection, so the commit is
\* issued next to the rollback
UserRejected_both(f) ==
    /\ tpc = "run"
    /\ result' = Rejected(ErrorOf("user", transaction, f))
    /\ userCalls' = SetLast(userCalls, Rejected(ErrorOf("user", transaction, f)))
    /\ rollbacks' = Append(rollbacks, Pending)
    /\ commits' = Append(commits, Pending)
    /\ tpc' = "rollback"
    /\ UNCHANGED <<optMaxAttempts, optPrevious, attemptsRemaining,
                   previousTransaction, transaction, txOutcome, begins>>
    /\ UNCHANGED notTxnVars

\* the Promise returned by updateFunction rejects: the catch handler issues
\* transaction.rollback()
UserRejected(f) ==
    /\ tpc = "run"
    /\ result' = Rejected(ErrorOf("user", transaction, f))
    /\ userCalls' = SetLast(userCalls, Rejected(ErrorOf("user", transaction, f)))
    /\ rollbacks' = Append(rollbacks, Pending)
    /\ tpc' = "rollback"
    /\ UNCHANGED <<optMaxAttempts, optPrevious, attemptsRemaining, previousTransaction,
                   transaction, txOutcome, begins, commits>>
    /\ UNCHANGED notTxnVars

\* `transaction.rollback().then(() => { return result; })`: the settled value
\* of the catch handler given the settled rollback rb and the promise result
AfterRollback(rb, res) ==
    IF rb.state = "resolved" THEN res ELSE rb

\* transaction.rollback() resolves: the catch handler returns result, the
\* first .then() rejects and the second .then() (the commit) is skipped
RollbackResolved ==
    /\ tpc = "rollback"
    /\ rollbacks' = SetLast(rollbacks, Resolved(0))
    /\ txOutcome' = AfterRollback(Resolved(0), result)
    /\ tpc' = "done"
    /\ UNCHANGED <<optMaxAttempts, optPrevious, attemptsRemaining, previousTransaction,
                   transaction, result, begins, userCalls, commits>>
    /\ UNCHANGED notTxnVars

\* transaction.rollback() rejects with err
RollbackRejected(f) ==
    /\ tpc = "rollback"
    /\ rollbacks' = SetLast(rollbacks, Rejected(ErrorOf("rollback", transaction, f)))
    /\ txOutcome' = AfterRollback(Rejected(ErrorOf("rollback", transaction, f)),
                                  result)
    /\ tpc' = "done"
    /\ UNCHANGED <<optMaxAttempts, optPrevious, attemptsRemaining, previousTransaction,
                   transaction, result, begins, userCalls, commits>>
    /\ UNCHANGED notTxnVars

\* variant: the commit's own response is passed on (`.then(() => result)` lost)
AfterCommit_response(res, v) == Resolved(v)

\* `transaction.commit().then(() => result)`: what a successful commit with
\* response v makes of the promise result
AfterCommit(res, v) == res

\* transaction.commit() resolves with response v
CommitResolved(v) ==
    /\ tpc = "commit"
    /\ commits' = SetLast(commits, Resolved(v))
    /\ txOutcome' = AfterCommit(result, v)
    /\ tpc' = "done"
    /\ UNCHANGED <<optMaxAttempts, optPrevious, attemptsRemaining, previousTransaction,
                   transaction, result, begins, userCalls, rollbacks>>
    /\ UNCHANGED notTxnVars

\* variant: `attemptsRemaining >= 0`, one attempt too many
RetryTransaction_extra(remaining) == remaining >= 0

\* `if (attemptsRemaining > 0)` in the catch handler of the commit
RetryTransaction(remaining) == remaining > 0

\* variant: the recursive call does not pass the remaining budget, so the
\* next attempt starts from the default again
CommitRejected_nobudget(f) ==
    /\ tpc = "commit"
    /\ commits' = SetLast(commits, Rejected(ErrorOf("commit", transaction, f)))
    /\ IF RetryTransaction(attemptsRemaining)
         THEN /\ EnterTransaction(0, transaction)
              /\ UNCHANGED txOutcome
         ELSE /\ txOutcome' = Rejected(ErrorOf("commit", transaction, f))
              /\ tpc' = "done"
              /\ UNCHANGED <<attemptsRemaining, previousTransaction,
                             transaction, result, begins>>
    /\ UNCHANGED <<optMaxAttempts, optPrevious, userCalls, rollbacks>>
    /\ UNCHANGED notTxnVars

\* transaction.commit() rejects with err: either runTransaction is called
\* again with the failed transaction and the remaining budget, or err is
\* returned
CommitRejected(f) ==
    /\ tpc = "commit"
    /\ commits' = SetLast(commits, Rejected(ErrorOf("commit", transaction, f)))
    /\ IF RetryTransaction(attemptsRemaining)
         THEN /\ EnterTransaction(attemptsRemaining, transaction)
              /\ UNCHANGED txOutcome
         ELSE /\ txOutcome' = Rejected(ErrorOf("commit", transaction, f))
              /\ tpc' = "done"
              /\ UNCHANGED <<attemptsRemaining, previousTransaction,
                             transaction, result, begins>>
    /\ UNCHANGED <<optMaxAttempts, optPrevious, userCalls, rollbacks>>
    /\ UNCHANGED notTxnVars

NextTxn ==
    \/ \E m \in 0..MaxBudget, p \in CallerPrevious : RunTransaction(m, p)
    \/ \E f \in CallFailures : BeginRejected(f)
    \/ BeginResolvedPromise
    \/ \E v \in Values : BeginResolvedValue(v)
    \/ \E f \in CallFailures : BeginResolvedThrow(f)
    \/ \E v \in Values : UserResolved(v)
    \/ \E f \in CallFailures : UserRejected(f)
    \/ RollbackResolved
    \/ \E f \in CallFailures : RollbackRejected(f)
    \/ \E v \in Values : CommitResolved(v)
    \/ \E f \in BackendFailures : CommitRejected(f)


(***************************************************************************)
(* Firestore._retry and the funnels request / readStream / readWriteStream *)
(***************************************************************************)
\* the delay `delayMs || 100` falls back to
defaultNextDelay == 100

InitRetryVars ==
    /\ rpc = "idle"
    /\ method = "none"
    /\ allowRetries = FALSE
    /\ retryAttemptsRemaining = 0
    /\ currentDelay = 0
    /\ nextDelay = 0
    /\ invocations = 0
    /\ results = <<>>
    /\ remainingLog = <<>>
    /\ delays = <<>>
    /\ now = 0
    /\ lastSuccessfulRequest = <<>>
    /\ reqOutcome = Pending
    /\ attemptStreams = <<>>

\* variant: the budget ignores allowRetries
Attempts_always(allow) == MAX_REQUEST_RETRIES

\* `let attempts = allowRetries ? MAX_REQUEST_RETRIES : 1;`
\* (the same statement opens request, readStream and readWriteStream)
Attempts(allow) == IF allow THEN MAX_REQUEST_RETRIES ELSE 1

\* variant: `--attemptsRemaining` is missing
Retry_nodecrement(attempts, delayMs) ==
    /\ currentDelay' = OrElse(delayMs, 0)
    /\ nextDelay' = OrElse(delayMs, defaultNextDelay)
    /\ retryAttemptsRemaining' = attempts
    /\ delays' = Append(delays, OrElse(delayMs, 0))
    /\ rpc' = "timer"

\* variant: exponential backoff, the next delay doubles at every entry
Retry_backoff(attempts, delayMs) ==
    /\ currentDelay' = OrElse(delayMs, 0)
    /\ nextDelay' = 2 * OrElse(delayMs, defaultNextDelay)
    /\ retryAttemptsRemaining' = attempts - 1
    /\ delays' = Append(delays, OrElse(delayMs, 0))
    /\ rpc' = "timer"

\* lines 906-916: _retry(attemptsRemaining, requestTag, func, delayMs) up to
\* the setTimeout; delayMs = 0 stands for an omitted delayMs
Retry(attempts, delayMs) ==
    /\ currentDelay' = OrElse(delayMs, 0)
    /\ nextDelay' = OrElse(delayMs, defaultNextDelay)
    /\ retryAttemptsRemaining' = attempts - 1
    /\ delays' = Append(delays, OrElse(delayMs, 0))
    /\ rpc' = "timer"

\* request(methodName, request, requestTag, allowRetries) is called: the
\* budget is computed and _retry is entered
Request(allow) ==
    /\ rpc = "idle"
    /\ method' = "request"
    /\ allowRetries' = allow
    /\ Retry(Attempts(allow), 0)
    /\ UNCHANGED <<invocations, results, remainingLog, now,
                   lastSuccessfulRequest, reqOutcome, attemptStreams>>
    /\ UNCHANGED notRetryVars

\* readStream(methodName, request, requestTag, allowRetries) is called
ReadStream(allow) ==
    /\ rpc = "idle"
    /\ method' = "readStream"
    /\ allowRetries' = allow
    /\ Retry(Attempts(allow), 0)
    /\ UNCHANGED <<invocations, results, remainingLog, now,
                   lastSuccessfulRequest, reqOutcome, attemptStreams>>
    /\ UNCHANGED notRetryVars

\* readWriteStream(methodName, request, requestTag, allowRetries) is called
ReadWriteStream(allow) ==
    /\ rpc = "idle"
    /\ method' = "readWriteStream"
    /\ allowRetries' = allow
    /\ Retry(Attempts(allow), 0)
    /\ UNCHANGED <<invocations, results, remainingLog, now,
                   lastSuccessfulRequest, reqOutcome, attemptStreams>>
    /\ UNCHANGED notRetryVars

\* variant: the transport stream is opened once and func hands it to
\* _initializeStream again at every attempt
NewStream_reuse(created) == 1

\* `gapicClient[methodName](...)` inside func: a stream object that did not
\* exist before; `created` streams were opened by this call so far
NewStream(created) == created + 1

\* what _initializeStream(stream, ...) resolves with: its argument
StreamValue(s) == [stream |-> s]

\* the timer of setTimeout(resolve, currentDelay) fires and func is invoked;
\* the func of readStream and readWriteStream opens a transport stream and
\* returns the Promise of _initializeStream for it
TimerFired ==
    /\ rpc = "timer"
    /\ now' = now + currentDelay
    /\ invocations' = invocations + 1
    /\ remainingLog' = Append(remainingLog, retryAttemptsRemaining)
    /\ attemptStreams' =
          IF method = "request" THEN attemptStreams
          ELSE Append(attemptStreams, NewStream(Len(attemptStreams)))
    /\ rpc' = "call"
    /\ UNCHANGED <<method, allowRetries, retryAttemptsRemaining, currentDelay,
                   nextDelay, results, delays, lastSuccessfulRequest,
                   reqOutcome>>
    /\ UNCHANGED notRetryVars

\* an earlier call on this instance succeeded and left its timestamp, a
\* reading of the clock before this call
EarlierRequestSucceeded ==
    /\ rpc = "idle"
    /\ lastSuccessfulRequest = <<>>
    /\ lastSuccessfulRequest' = <<now - 1>>
    /\ UNCHANGED <<rpc, method, allowRetries, retryAttemptsRemaining,
                   currentDelay, nextDelay, invocations, results, remainingLog,
                   delays, now, reqOutcome, attemptStreams>>
    /\ UNCHANGED notRetryVars

\* func resolves: with the response v of the RPC for request, with the
\* stream of this attempt for readStream and readWriteStream; the timestamp
\* is recorded and the value is passed on
FuncResolved(v) ==
    LET val == IF method = "request" THEN v
               ELSE StreamValue(Last(attemptStreams))
    IN
    /\ rpc = "call"
    /\ results' = Append(results, Resolved(val))
    /\ lastSuccessfulRequest' = <<now>>
    /\ reqOutcome' = Resolved(val)
    /\ rpc' = "done"
    /\ UNCHANGED <<method, allowRetries, retryAttemptsRemaining, currentDelay,
                   nextDelay, invocations, remainingLog, delays, now,
                   attemptStreams>>
    /\ UNCHANGED notRetryVars

\* variant: `err.code && err.code !== GRPC_UNAVAILABLE`, a truthiness test
\* that takes code 0 for a missing code
Unrecoverable_truthy(err) ==
    err.hasCode /\ err.code # 0 /\ err.code # GRPC_UNAVAILABLE

\* `is.defined(err.code) && err.code !== GRPC_UNAVAILABLE`
Unrecoverable(err) == err.hasCode /\ err.code # GRPC_UNAVAILABLE

\* variant: `attemptsRemaining <= 1`, the last attempt is never made
Exhausted_early(remaining) == remaining <= 1

\* `attemptsRemaining === 0`
Exhausted(remaining) == remaining = 0

\* variant: the timestamp is written in a handler that runs for failed
\* attempts as well
FuncRejected_stamps(f) ==
    /\ rpc = "call"
    /\ results' = Append(results, Rejected(ErrorOf("rpc", invocations, f)))
    /\ lastSuccessfulRequest' = <<now>>
    /\ IF \/ Unrecoverable(ErrorOf("rpc", invocations, f))
          \/ Exhausted(retryAttemptsRemaining)
         THEN /\ reqOutcome' = Rejected(ErrorOf("rpc", invocations, f))
              /\ rpc' = "done"
              /\ UNCHANGED <<retryAttemptsRemaining, currentDelay, nextDelay,
                             delays>>
         ELSE /\ Retry(retryAttemptsRemaining, nextDelay)
              /\ UNCHANGED reqOutcome
    /\ UNCHANGED <<method, allowRetries, invocations, remainingLog, now,
                   attemptStreams>>
    /\ UNCHANGED notRetryVars

\* func rejects with err: the catch handler of _retry
FuncRejected(f) ==
    /\ rpc = "call"
    /\ results' = Append(results, Rejected(ErrorOf("rpc", invocations, f)))
    /\ IF \/ Unrecoverable(ErrorOf("rpc", invocations, f))
          \/ Exhausted(retryAttemptsRemaining)
         THEN /\ reqOutcome' = Rejected(ErrorOf("rpc", invocations, f))
              /\ rpc' = "done"
              /\ UNCHANGED <<retryAttemptsRemaining, currentDelay, nextDelay,
                             delays>>
         ELSE /\ Retry(retryAttemptsRemaining, nextDelay)
              /\ UNCHANGED reqOutcome
    /\ UNCHANGED <<method, allowRetries, invocations, remainingLog, now,
                   lastSuccessfulRequest, attemptStreams>>
    /\ UNCHANGED notRetryVars

NextRetry ==
    \/ \E a \in BOOLEAN : Request(a)
    \/ \E a \in BOOLEAN : ReadStream(a)
    \/ \E a \in BOOLEAN : ReadWriteStream(a)
    \/ TimerFired
    \/ EarlierRequestSucceeded
    \/ \E v \in Values : FuncResolved(v)
    \/ \E f \in BackendFailures : FuncRejected(f)

(***************************************************************************)
(* Firestore._initializeStream: the stream-health protocol                 *)
(***************************************************************************)
\* resolve() and reject() of a Promise that is already settled do nothing
Settle(p, outcome) == IF p.state = "pending" THEN outcome ELSE p

InitStream ==
    [errorReceived |-> <<>>,      \* <<>> is null, <<e>> a buffered error
     streamReleased |-> FALSE,
     endCalled |-> FALSE,
     promise |-> Pending,         \* the Promise _initializeStream returns
     resolveCalls |-> 0,          \* calls of resolve(resultStream)
     rejectCalls |-> 0,           \* calls of reject(err)
     flowing |-> "null",          \* resultStream's readableFlowing
     buffer |-> <<>>,             \* data read by the transport, not yet emitted
     timerPending |-> FALSE]      \* the setTimeout(..., 0) of releaseStream

\* the events emitted on resultStream
DataEvent(item) == [type |-> "data", item |-> item]
ErrorEvent(err) == [type |-> "error", err |-> err]
EndEvent == [type |-> "end"]

\* variant: the initial error does not mark the stream as released
ErrorHandler_noflag(s, err) ==
    IF ~s.streamReleased
      THEN [s EXCEPT !.promise = Settle(@, Rejected(err)),
                     !.rejectCalls = @ + 1]
      ELSE [s EXCEPT !.errorReceived = <<err>>]

\* variant: an error that arrives while one is pending is dropped
ErrorHandler_keepfirst(s, err) ==
    IF ~s.streamReleased
      THEN [s EXCEPT !.streamReleased = TRUE,
                     !.promise = Settle(@, Rejected(err)),
                     !.rejectCalls = @ + 1]
      ELSE IF s.errorReceived = <<>>
        THEN [s EXCEPT !.errorReceived = <<err>>]
        ELSE s

\* resultStream.on('error', err => ...)
ErrorHandler(s, err) ==
    IF ~s.streamReleased
      THEN [s EXCEPT !.streamReleased = TRUE,
                     !.promise = Settle(@, Rejected(err)),
                     !.rejectCalls = @ + 1]
      ELSE [s EXCEPT !.errorReceived = <<err>>]

\* variant: `streamReleased = true` is missing in releaseStream
ReleaseStream_noflag(s) ==
    IF s.errorReceived # <<>>
      THEN [ErrorHandler(s, s.errorReceived[1]) EXCEPT !.errorReceived = <<>>]
      ELSE IF ~s.streamReleased
        THEN [s EXCEPT !.flowing = "false",
                       !.promise = Settle(@, Resolved(1)),
                       !.resolveCalls = @ + 1,
                       !.timerPending = TRUE]
        ELSE s

\* variant: `resultStream.pause()` is missing in releaseStream
ReleaseStream_nopause(s) ==
    IF s.errorReceived # <<>>
      THEN [ErrorHandler(s, s.errorReceived[1]) EXCEPT !.errorReceived = <<>>]
      ELSE IF ~s.streamReleased
        THEN [s EXCEPT !.streamReleased = TRUE,
                       !.promise = Settle(@, Resolved(1)),
                       !.resolveCalls = @ + 1,
                       !.timerPending = TRUE]
        ELSE s

\* releaseStream(): its effect on the state. resultStream.emit('error', ...)
\* also calls the error listener above before errorReceived is cleared.
ReleaseStream(s) ==
    IF s.errorReceived # <<>>
      THEN [ErrorHandler(s, s.errorReceived[1]) EXCEPT !.errorReceived = <<>>]
      ELSE IF ~s.streamReleased
        THEN [s EXCEPT !.streamReleased = TRUE,
                       !.flowing = "false",
                       !.promise = Settle(@, Resolved(1)),
                       !.resolveCalls = @ + 1,
                       !.timerPending = TRUE]
        ELSE s

\* releaseStream(): the events it emits on resultStream
ReleaseEmits(s) ==
    IF s.errorReceived # <<>> THEN <<ErrorEvent(s.errorReceived[1])>> ELSE <<>>

\* resultStream.on('end', () => ...)
EndHandler(s) == ReleaseStream([s EXCEPT !.endCalled = TRUE])

(***************************************************************************)
(* Firestore.getAll_: the consumer of the released stream                  *)
(***************************************************************************)
\* DocumentReference.formattedName and the path of the reference that
\* snapshot_ builds from a resource name
FormattedName(p) == <<"documents", p>>
PathOf(name) == name[2]

\* `new Set()` filled in list order and turned into an array: first
\* occurrences, in order
RECURSIVE Unique(_)
Unique(s) ==
    IF s = <<>> THEN <<>>
    ELSE LET r == Unique(SubSeq(s, 1, Len(s) - 1))
         IN IF \E i \in 1..Len(r) : r[i] = s[Len(s)] THEN r
            ELSE Append(r, s[Len(s)])

\* request.documents of getAll_
RequestDocuments(refs) ==
    Unique([i \in 1..Len(refs) |-> FormattedName(refs[i])])

\* snapshot_(response.found | response.missing, response.readTime)
Snapshot(item) ==
    [path |-> PathOf(item.name), exists |-> item.found, seq |-> item.seq]

\* what retrievedDocuments.get() returns for a path without entry
Undefined == [undefined |-> TRUE]

DidNotReceive(path) == MkError("didnotreceive", path, FALSE, 0)

\* retrievedDocuments.set(path, document)
MapSet(m, path, doc) ==
    [p \in (DOMAIN m) \cup {path} |-> IF p = path THEN doc ELSE m[p]]

\* variant: the loop runs over the collapsed list of references
OrderedDocuments_unique(refs, m) ==
    [i \in 1..Len(Unique(refs)) |->
        IF Unique(refs)[i] \in DOMAIN m THEN m[Unique(refs)[i]]
        ELSE Undefined]

\* the loop of the 'end' listener: the list in request order
OrderedDocuments(refs, m) ==
    [i \in 1..Len(refs) |->
        IF refs[i] \in DOMAIN m THEN m[refs[i]] ELSE Undefined]

\* variant: the loop of the 'end' listener does not call reject()
EndListener_partial(refs, m, outcome) ==
    Settle(outcome, Resolved(OrderedDocuments(refs, m)))

\* the 'end' listener: reject() for each path without document, in request
\* order and without leaving the loop, then resolve(orderedDocuments)
EndListener(refs, m, outcome) ==
    LET missing == {i \in 1..Len(refs) : refs[i] \notin DOMAIN m}
        first == CHOOSE i \in missing : \A j \in missing : i <= j
        rejected == IF missing = {} THEN outcome
                    ELSE Settle(outcome, Rejected(DidNotReceive(refs[first])))
    IN Settle(rejected, Resolved(OrderedDocuments(refs, m)))

\* variant: the 'end' listener decides the result whatever happened before
Listener_endwins(refs, g, ev) ==
    IF ev.type = "data"
      THEN [g EXCEPT !.retrieved =
                MapSet(@, Snapshot(ev.item).path, Snapshot(ev.item))]
    ELSE IF ev.type = "error"
      THEN [g EXCEPT !.outcome = Settle(@, Rejected(ev.err))]
    ELSE [g EXCEPT !.outcome = EndListener(refs, g.retrieved, Pending)]

\* one event reaching the listeners getAll_ registered; g holds
\* retrievedDocuments and the state of getAll_'s Promise
Listener(refs, g, ev) ==
    IF ev.type = "data"
      THEN [g EXCEPT !.retrieved =
                MapSet(@, Snapshot(ev.item).path, Snapshot(ev.item))]
    ELSE IF ev.type = "error"
      THEN [g EXCEPT !.outcome = Settle(@, Rejected(ev.err))]
    ELSE [g EXCEPT !.outcome = EndListener(refs, g.retrieved, @)]

RECURSIVE Listeners(_, _, _)
Listeners(refs, g, evs) ==
    IF evs = <<>> THEN g
    ELSE Listeners(refs, Listener(refs, g, Head(evs)), Tail(evs))

InitStreamVars ==
    /\ opened = FALSE
    /\ hasRequest = FALSE
    /\ acked = FALSE
    /\ stream = InitStream
    /\ attached = FALSE
    /\ signals = <<>>
    /\ consumerEvents = <<>>
    /\ docRefs = <<>>
    /\ requestDocuments = <<>>
    /\ retrievedDocuments = <<>>
    /\ getAllOutcome = Pending

\* events emitted on resultStream reach the consumer once it has registered
\* its listeners; they are recorded and handed to getAll_'s listeners
Emit(evs) ==
    LET seen == IF attached THEN evs ELSE <<>>
        g == Listeners(docRefs,
                       [retrieved |-> retrievedDocuments,
                        outcome |-> getAllOutcome], seen)
    IN /\ consumerEvents' = consumerEvents \o seen
       /\ retrievedDocuments' = g.retrieved
       /\ getAllOutcome' = g.outcome

\* a signal of the transport, with what was true when it arrived
Signal(type, payload) ==
    [type |-> type, payload |-> payload,
     released |-> stream.promise.state = "resolved",
     attached |-> attached]

\* _initializeStream(resultStream, requestTag, request) is called; withRequest
\* says whether request is defined (then it is written to the stream)
OpenStream(withRequest) ==
    /\ ~opened
    /\ opened' = TRUE
    /\ hasRequest' = withRequest
    /\ UNCHANGED <<acked, stream, attached, signals, consumerEvents, docRefs,
                   requestDocuments, retrievedDocuments, getAllOutcome>>
    /\ UNCHANGED notStreamVars

\* getAll_(docRefs, requestTag): the request is built and readStream opens
\* the stream without initial request
GetAll(refs) ==
    /\ ~opened
    /\ opened' = TRUE
    /\ hasRequest' = FALSE
    /\ docRefs' = refs
    /\ requestDocuments' = RequestDocuments(refs)
    /\ UNCHANGED <<acked, stream, attached, signals, consumerEvents,
                   retrievedDocuments, getAllOutcome>>
    /\ UNCHANGED notStreamVars

\* the number of data items the transport has delivered so far
Arrived == Len(SelectSeq(signals, LAMBDA x : x.type = "data"))

\* the transport delivers a response for path p. A flowing stream emits it
\* as 'data'; otherwise it is buffered and 'readable' is emitted.
StreamData(p, found) ==
    LET item == [seq |-> Arrived + 1, name |-> FormattedName(p),
                 found |-> found]
    IN
    /\ opened
    /\ Len(signals) < MaxSignals
    /\ signals' = Append(signals, Signal("data", <<item>>))
    /\ IF stream.flowing = "true"
         THEN /\ Emit(<<DataEvent(item)>>)
              /\ UNCHANGED stream
         ELSE /\ stream' = ReleaseStream([stream EXCEPT
                                            !.buffer = Append(@, item)])
              /\ Emit(ReleaseEmits(stream))
    /\ UNCHANGED <<opened, hasRequest, acked, attached, docRefs,
                   requestDocuments>>
    /\ UNCHANGED notStreamVars

\* 'readable' without new data
StreamReadable ==
    /\ opened
    /\ Len(signals) < MaxSignals
    /\ signals' = Append(signals, Signal("readable", <<>>))
    /\ stream' = ReleaseStream(stream)
    /\ Emit(ReleaseEmits(stream))
    /\ UNCHANGED <<opened, hasRequest, acked, attached, docRefs,
                   requestDocuments>>
    /\ UNCHANGED notStreamVars

\* 'end' of the transport; a stream emits it once, and only when its buffer
\* is empty. The listener of _initializeStream was registered first and runs
\* first.
StreamEnd ==
    /\ opened
    /\ Len(signals) < MaxSignals
    /\ stream.buffer = <<>>
    /\ \A i \in 1..Len(signals) : signals[i].type # "end"
    /\ signals' = Append(signals, Signal("end", <<>>))
    /\ stream' = EndHandler(stream)
    /\ Emit(ReleaseEmits(stream) \o <<EndEvent>>)
    /\ UNCHANGED <<opened, hasRequest, acked, attached, docRefs,
                   requestDocuments>>
    /\ UNCHANGED notStreamVars

\* 'error' of the transport
StreamError(f) ==
    LET err == ErrorOf("stream", Len(signals) + 1, f)
    IN
    /\ opened
    /\ Len(signals) < MaxSignals
    /\ signals' = Append(signals, Signal("error", <<err>>))
    /\ stream' = ErrorHandler(stream, err)
    /\ Emit(<<ErrorEvent(err)>>)
    /\ UNCHANGED <<opened, hasRequest, acked, attached, docRefs,
                   requestDocuments>>
    /\ UNCHANGED notStreamVars

\* variant: the callback of the write only logs
WriteAck_norelease ==
    /\ opened
    /\ hasRequest
    /\ ~acked
    /\ Len(signals) < MaxSignals
    /\ acked' = TRUE
    /\ signals' = Append(signals, Signal("ack", <<>>))
    /\ UNCHANGED <<stream, consumerEvents, retrievedDocuments, getAllOutcome>>
    /\ UNCHANGED <<opened, hasRequest, attached, docRefs, requestDocuments>>
    /\ UNCHANGED notStreamVars

\* the callback of resultStream.write(request, 'utf-8', ...)
WriteAck ==
    /\ opened
    /\ hasRequest
    /\ ~acked
    /\ Len(signals) < MaxSignals
    /\ acked' = TRUE
    /\ signals' = Append(signals, Signal("ack", <<>>))
    /\ stream' = ReleaseStream(stream)
    /\ Emit(ReleaseEmits(stream))
    /\ UNCHANGED <<opened, hasRequest, attached, docRefs, requestDocuments>>
    /\ UNCHANGED notStreamVars

\* the .then() of the consumer: the listeners are registered and
\* stream.resume() lets the buffered data flow, in order
ConsumerAttach ==
    /\ stream.promise.state = "resolved"
    /\ ~attached
    /\ attached' = TRUE
    /\ stream' = [stream EXCEPT !.flowing = "true", !.buffer = <<>>]
    /\ LET data == [i \in 1..Len(stream.buffer) |->
                       DataEvent(stream.buffer[i])]
           g == Listeners(docRefs,
                          [retrieved |-> retrievedDocuments,
                           outcome |-> getAllOutcome], data)
       IN /\ consumerEvents' = consumerEvents \o data
          /\ retrievedDocuments' = g.retrieved
          /\ getAllOutcome' = g.outcome
    /\ UNCHANGED <<opened, hasRequest, acked, signals, docRefs,
                   requestDocuments>>
    /\ UNCHANGED notStreamVars

\* the callback of the setTimeout(..., 0) of releaseStream; it runs after
\* the Promise chain, so after the consumer's .then()
EndTimer ==
    /\ stream.timerPending
    /\ attached
    /\ IF stream.endCalled
         THEN /\ stream' = [EndHandler(stream) EXCEPT !.timerPending = FALSE]
              /\ Emit(ReleaseEmits(stream) \o <<EndEvent>>)
         ELSE /\ stream' = [stream EXCEPT !.timerPending = FALSE]
              /\ Emit(<<>>)
    /\ UNCHANGED <<opened, hasRequest, acked, attached, signals, docRefs,
                   requestDocuments>>
    /\ UNCHANGED notStreamVars

NextStream ==
    \/ \E r \in BOOLEAN : OpenStream(r)
    \/ \E b \in BOOLEAN : StreamData(1, b)
    \/ StreamReadable
    \/ StreamEnd
    \/ \E f \in CallFailures : StreamError(f)
    \/ WriteAck
    \/ ConsumerAttach
    \/ EndTimer

\* the lists of document references handed to getAll_
RefLists == UNION {[1..n -> Paths] : n \in 0..MaxDocs}

\* the backend answers batchGetDocuments with a document of the request
DocumentArrives(p) ==
    /\ \E i \in 1..Len(docRefs) : docRefs[i] = p
    /\ StreamData(p, TRUE)

NextBatchGet ==
    \/ \E refs \in RefLists : GetAll(refs)
    \/ \E p \in Paths : DocumentArrives(p)
    \/ StreamReadable
    \/ StreamEnd
    \/ \E f \in {[hasCode |-> FALSE, code |-> 0]} : StreamError(f)
    \/ ConsumerAttach
    \/ EndTimer

(***************************************************************************)
(* ClientPool: handles with a ceiling of concurrent operations             *)
(***************************************************************************)
\* the ceilings a pool is built with: small ones and the one of
\* _initClientPool
Ceilings == (1..MaxCeiling) \cup {MAX_CONCURRENT_REQUESTS_PER_CLIENT}

\* the handles a pool can come to hold under the bound on operations
Handles == 1..(MaxExtraOperations + 1)

InitPoolVars ==
    /\ concurrentOperationLimit = 0
    /\ activeClients = <<>>
    /\ lastRun = [handle |-> 0, saturated |-> FALSE, created |-> FALSE]
    /\ lastSettled = "none"
    /\ unsettled = <<>>

RECURSIVE Sum(_)
Sum(s) == IF s = <<>> THEN 0 ELSE Head(s) + Sum(Tail(s))

\* the handles whose in-flight count is below the ceiling
Available == {k \in 1..Len(activeClients) :
                 activeClients[k] < concurrentOperationLimit}

\* new ClientPool(c, clientFactory): no handle yet
NewClientPool(c) ==
    /\ concurrentOperationLimit = 0
    /\ concurrentOperationLimit' = c
    /\ UNCHANGED <<activeClients, lastRun, lastSettled, unsettled>>
    /\ UNCHANGED notPoolVars

\* variant: run() takes any existing handle, whatever its load
Run_overload(i) ==
    /\ concurrentOperationLimit > 0
    /\ Sum(activeClients) < concurrentOperationLimit + MaxExtraOperations
    /\ IF activeClients # <<>>
         THEN /\ i \in 1..Len(activeClients)
              /\ activeClients' = [activeClients EXCEPT ![i] = @ + 1]
              /\ unsettled' = [unsettled EXCEPT ![i] = @ + 1]
         ELSE /\ i = Len(activeClients) + 1
              /\ activeClients' = Append(activeClients, 1)
              /\ unsettled' = Append(unsettled, 1)
    /\ lastRun' = [handle |-> i, saturated |-> Available = {},
                   created |-> i > Len(activeClients)]
    /\ UNCHANGED <<concurrentOperationLimit, lastSettled>>
    /\ UNCHANGED notPoolVars

\* clientPool.run(op): op gets handle i, a handle below the ceiling or, if
\* there is none, a new one; its count is incremented before op is invoked
Run(i) ==
    /\ concurrentOperationLimit > 0
    /\ Sum(activeClients) < concurrentOperationLimit + MaxExtraOperations
    /\ IF Available # {}
         THEN /\ i \in Available
              /\ activeClients' = [activeClients EXCEPT ![i] = @ + 1]
              /\ unsettled' = [unsettled EXCEPT ![i] = @ + 1]
         ELSE /\ i = Len(activeClients) + 1
              /\ activeClients' = Append(activeClients, 1)
              /\ unsettled' = Append(unsettled, 1)
    /\ lastRun' = [handle |-> i, saturated |-> Available = {},
                   created |-> i > Len(activeClients)]
    /\ UNCHANGED <<concurrentOperationLimit, lastSettled>>
    /\ UNCHANGED notPoolVars

\* variant: the count is decremented only when the operation resolves
OperationSettled_successonly(i, ok) ==
    /\ i \in 1..Len(unsettled)
    /\ unsettled[i] > 0
    /\ unsettled' = [unsettled EXCEPT ![i] = @ - 1]
    /\ activeClients' = IF ok THEN [activeClients EXCEPT ![i] = @ - 1]
                        ELSE activeClients
    /\ lastSettled' = IF ok THEN "resolved" ELSE "rejected"
    /\ UNCHANGED <<concurrentOperationLimit, lastRun>>
    /\ UNCHANGED notPoolVars

\* the Promise of an operation running on handle i settles: the count is
\* decremented whether it resolved or rejected
OperationSettled(i, ok) ==
    /\ i \in 1..Len(unsettled)
    /\ unsettled[i] > 0
    /\ unsettled' = [unsettled EXCEPT ![i] = @ - 1]
    /\ activeClients' = [activeClients EXCEPT ![i] = @ - 1]
    /\ lastSettled' = IF ok THEN "resolved" ELSE "rejected"
    /\ UNCHANGED <<concurrentOperationLimit, lastRun>>
    /\ UNCHANGED notPoolVars

NextPool ==
    \/ \E c \in Ceilings : NewClientPool(c)
    \/ \E i \in Handles : Run(i)
    \/ \E i \in Handles, ok \in BOOLEAN : OperationSettled(i, ok)

(***************************************************************************)
(* One Firestore instance: settings(), _runRequest, _initClientPool,       *)
(* _detectProjectId and _decorateRequest                                   *)
(***************************************************************************)
\* the projectId '{{projectId}}' of the temporary reference path
Placeholder == 0

ProjectIds == 1..MaxProjects
RequestIds == 1..MaxRequests

\* this._clientInitialized before the first request, and a Promise that was
\* never created
Null == [state |-> "null"]

\* the argument of settings(): projectId 0 and timestampsInSnapshots
\* "undefined" stand for a property that is not given; valid is whether the
\* validate.* calls accept the argument
SettingsInputs ==
    {s \in [valid : BOOLEAN,
            projectId : {0} \cup ProjectIds,
            timestampsInSnapshots : {"undefined", "true", "false"}] :
        s.valid \/ (s.projectId = 0 /\ s.timestampsInSnapshots = "undefined")}

InitInstanceVars ==
    /\ settingsFrozen = FALSE
    /\ clientInitialized = Null
    /\ initalizationSettings =
          [projectId |-> 0, timestampsInSnapshots |-> "undefined"]
    /\ referencePath = Placeholder
    /\ timestampsInSnapshotsEnabled = FALSE
    /\ clientPool = FALSE
    /\ detection = Null
    /\ initCalls = 0
    /\ settingsCalls = 0
    /\ settingsApplied = 0
    /\ lastSettings = "none"
    /\ requests = [r \in RequestIds |->
                      [state |-> "none", request |-> Placeholder,
                       sent |-> <<>>, found |-> "none", error |-> <<>>]]

\* extend({}, this._initalizationSettings, settings): the properties given
\* in settings replace those of the stored settings
Extend(old, new) ==
    [projectId |-> IF new.projectId # 0 THEN new.projectId
                   ELSE old.projectId,
     timestampsInSnapshots |->
         IF new.timestampsInSnapshots # "undefined"
           THEN new.timestampsInSnapshots
           ELSE old.timestampsInSnapshots]

\* validateAndApplySettings(settings)
ValidateAndApplySettings(s) ==
    /\ timestampsInSnapshotsEnabled' = (s.timestampsInSnapshots = "true")
    /\ referencePath' = IF s.projectId # 0 THEN s.projectId ELSE Placeholder
    /\ initalizationSettings' = s

\* variant: `this._settingsFrozen = true` is missing
Settings_nofreeze(s) ==
    /\ settingsCalls < MaxSettingsCalls
    /\ settingsCalls' = settingsCalls + 1
    /\ IF ~s.valid \/ clientInitialized # Null \/ settingsFrozen
         THEN /\ lastSettings' = "threw"
              /\ UNCHANGED <<settingsFrozen, settingsApplied,
                             initalizationSettings, referencePath,
                             timestampsInSnapshotsEnabled>>
         ELSE /\ ValidateAndApplySettings(Extend(initalizationSettings, s))
              /\ settingsApplied' = settingsApplied + 1
              /\ lastSettings' = "applied"
              /\ UNCHANGED settingsFrozen
    /\ UNCHANGED <<clientInitialized, clientPool, detection, initCalls,
                   requests>>
    /\ UNCHANGED notInstanceVars

\* settings(settings): the validation, the two guards, then the merged
\* settings are applied and frozen
Settings(s) ==
    /\ settingsCalls < MaxSettingsCalls
    /\ settingsCalls' = settingsCalls + 1
    /\ IF ~s.valid
         THEN /\ lastSettings' = "invalid"
              /\ UNCHANGED <<settingsFrozen, settingsApplied,
                             initalizationSettings, referencePath,
                             timestampsInSnapshotsEnabled>>
       ELSE IF clientInitialized # Null
         THEN /\ lastSettings' = "started"
              /\ UNCHANGED <<settingsFrozen, settingsApplied,
                             initalizationSettings, referencePath,
                             timestampsInSnapshotsEnabled>>
       ELSE IF settingsFrozen
         THEN /\ lastSettings' = "frozen"
              /\ UNCHANGED <<settingsFrozen, settingsApplied,
                             initalizationSettings, referencePath,
                             timestampsInSnapshotsEnabled>>
       ELSE /\ ValidateAndApplySettings(Extend(initalizationSettings, s))
            /\ settingsFrozen' = TRUE
            /\ settingsApplied' = settingsApplied + 1
            /\ lastSettings' = "applied"
    /\ UNCHANGED <<clientInitialized, clientPool, detection, initCalls,
                   requests>>
    /\ UNCHANGED notInstanceVars

\* _initClientPool(): the pool is constructed; with a project id the Promise
\* is resolved with the pool, without one _detectProjectId is run on it
InitClientPool ==
    /\ initCalls' = initCalls + 1
    /\ clientInitialized' = Pending
    /\ detection' = IF referencePath # Placeholder THEN detection
                    ELSE Pending

\* variant: the guard is `if (!this._clientPool)`, which is still null
\* while the initialization is pending
RunRequest_poolguard(r, early) ==
    /\ requests[r].state = "none"
    /\ \A q \in 1..(r - 1) : requests[q].state # "none"
    /\ requests' = [requests EXCEPT ![r] =
          [state |-> "waiting",
           request |-> IF early THEN Placeholder ELSE referencePath,
           sent |-> <<>>, found |-> clientInitialized.state,
           error |-> <<>>]]
    /\ IF ~clientPool
         THEN InitClientPool
         ELSE UNCHANGED <<initCalls, clientInitialized, detection>>
    /\ UNCHANGED <<settingsFrozen, initalizationSettings, referencePath,
                   timestampsInSnapshotsEnabled, clientPool, settingsCalls,
                   settingsApplied, lastSettings>>
    /\ UNCHANGED notInstanceVars

\* request r enters _runRequest(op): the first one starts the client
\* initialization, every one chains its op to this._clientInitialized. The
\* request object was built from the reference path of an earlier moment
\* (early: when it still held the placeholder) or of this one. found is
\* what the guard read in this._clientInitialized.
RunRequest(r, early) ==
    /\ requests[r].state = "none"
    /\ \A q \in 1..(r - 1) : requests[q].state # "none"
    /\ requests' = [requests EXCEPT ![r] =
          [state |-> "waiting",
           request |-> IF early THEN Placeholder ELSE referencePath,
           sent |-> <<>>, found |-> clientInitialized.state,
           error |-> <<>>]]
    /\ IF clientInitialized = Null
         THEN InitClientPool
         ELSE UNCHANGED <<initCalls, clientInitialized, detection>>
    /\ UNCHANGED <<settingsFrozen, initalizationSettings, referencePath,
                   timestampsInSnapshotsEnabled, clientPool, settingsCalls,
                   settingsApplied, lastSettings>>
    /\ UNCHANGED notInstanceVars

\* `Promise.resolve(clientPool)` of _initClientPool reaches the .then() of
\* _runRequest: this._clientPool is assigned
PoolReady ==
    /\ clientInitialized = Pending
    /\ detection = Null
    /\ clientPool' = TRUE
    /\ clientInitialized' = Resolved(0)
    /\ UNCHANGED <<settingsFrozen, initalizationSettings, referencePath,
                   timestampsInSnapshotsEnabled, detection, initCalls,
                   settingsCalls, settingsApplied, lastSettings, requests>>
    /\ UNCHANGED notInstanceVars

\* gapicClient.getProjectId calls back with project id p: the reference path
\* is replaced, then this._clientPool is assigned
DetectResolved(p) ==
    /\ detection = Pending
    /\ detection' = Resolved(p)
    /\ referencePath' = p
    /\ clientPool' = TRUE
    /\ clientInitialized' = Resolved(0)
    /\ UNCHANGED <<settingsFrozen, initalizationSettings,
                   timestampsInSnapshotsEnabled, initCalls, settingsCalls,
                   settingsApplied, lastSettings, requests>>
    /\ UNCHANGED notInstanceVars

\* variant: a failed initialization is forgotten, so that the next request
\* starts it again
DetectRejected_reset(f) ==
    /\ detection = Pending
    /\ detection' = Rejected(ErrorOf("detect", initCalls, f))
    /\ clientInitialized' = Null
    /\ UNCHANGED <<settingsFrozen, initalizationSettings, referencePath,
                   timestampsInSnapshotsEnabled, clientPool, initCalls,
                   settingsCalls, settingsApplied, lastSettings, requests>>
    /\ UNCHANGED notInstanceVars

\* gapicClient.getProjectId calls back with an error: the Promise of
\* _initClientPool rejects and with it this._clientInitialized
DetectRejected(f) ==
    /\ detection = Pending
    /\ detection' = Rejected(ErrorOf("detect", initCalls, f))
    /\ clientInitialized' = Rejected(ErrorOf("detect", initCalls, f))
    /\ UNCHANGED <<settingsFrozen, initalizationSettings, referencePath,
                   timestampsInSnapshotsEnabled, clientPool, initCalls,
                   settingsCalls, settingsApplied, lastSettings, requests>>
    /\ UNCHANGED notInstanceVars

\* common.util.replaceProjectIdToken(request, projectId)
ReplaceProjectIdToken(req, projectId) ==
    IF req = Placeholder THEN projectId ELSE req

\* this.formattedName: the formatted name of the reference path
DatabaseName(projectId) == <<"projects", projectId, "databases", "(default)">>

\* variant: the result of replaceProjectIdToken is dropped
DecorateRequest_noreplace(req) ==
    [request |-> req, header |-> DatabaseName(referencePath)]

\* _decorateRequest(request): the decorated request and the GAX options
\* with the routing header
DecorateRequest(req) ==
    [request |-> ReplaceProjectIdToken(req, referencePath),
     header |-> DatabaseName(referencePath)]

\* the .then() on this._clientInitialized of request r runs
\* this._clientPool.run(op); op decorates the request and sends it
RunOperation(r) ==
    /\ requests[r].state = "waiting"
    /\ clientInitialized.state = "resolved"
    /\ clientPool
    /\ requests' = [requests EXCEPT ![r].state = "running",
                        ![r].sent = <<DecorateRequest(requests[r].request)>>]
    /\ UNCHANGED <<settingsFrozen, clientInitialized, initalizationSettings,
                   referencePath, timestampsInSnapshotsEnabled, clientPool,
                   detection, initCalls, settingsCalls, settingsApplied,
                   lastSettings>>
    /\ UNCHANGED notInstanceVars

\* the op of request r settles
OperationDone(r, ok) ==
    /\ requests[r].state = "running"
    /\ requests' = [requests EXCEPT ![r].state =
                        IF ok THEN "resolved" ELSE "rejected"]
    /\ UNCHANGED <<settingsFrozen, clientInitialized, initalizationSettings,
                   referencePath, timestampsInSnapshotsEnabled, clientPool,
                   detection, initCalls, settingsCalls, settingsApplied,
                   lastSettings>>
    /\ UNCHANGED notInstanceVars

\* this._clientInitialized is rejected: the .then() of request r is skipped
\* and _runRequest rejects with the error of the initialization (error)
InitializationFailed(r) ==
    /\ requests[r].state = "waiting"
    /\ clientInitialized.state = "rejected"
    /\ requests' = [requests EXCEPT ![r].state = "failed",
                        ![r].error = <<clientInitialized.err>>]
    /\ UNCHANGED <<settingsFrozen, clientInitialized, initalizationSettings,
                   referencePath, timestampsInSnapshotsEnabled, clientPool,
                   detection, initCalls, settingsCalls, settingsApplied,
                   lastSettings>>
    /\ UNCHANGED notInstanceVars

NextInstance ==
    \/ \E s \in SettingsInputs : Settings(s)
    \/ \E r \in RequestIds, early \in BOOLEAN : RunRequest(r, early)
    \/ PoolReady
    \/ \E p \in ProjectIds : DetectResolved(p)
    \/ \E f \in CallFailures : DetectRejected(f)
    \/ \E r \in RequestIds : RunOperation(r)
    \/ \E r \in RequestIds, ok \in BOOLEAN : OperationDone(r, ok)
    \/ \E r \in RequestIds : InitializationFailed(r)

(***************************************************************************)
(* One call of request / readStream / readWriteStream: _runRequest hands   *)
(* the op to the pool, the op decorates the request and enters _retry      *)
(***************************************************************************)
InitCallVars ==
    /\ callPc = "idle"
    /\ callMethod = "none"
    /\ callAllowRetries = FALSE
    /\ callRequest = Placeholder
    /\ gapicClient = 0
    /\ decorated = <<>>
    /\ callAttemptsRemaining = 0
    /\ callAttempts = <<>>
    /\ opOutcome = Pending
    /\ callOutcome = Pending
    /\ streamEnded = FALSE
    /\ otherOperations = [h \in Handles |-> 0]

Methods == {"request", "readStream", "readWriteStream"}

\* the request arguments: one that holds the placeholder, or one that names
\* a project
CallRequests == {Placeholder} \cup ProjectIds

\* run(): handle i is one below the ceiling or, if there is none, a new
\* one; its count is incremented before the operation is invoked
Acquire(i) ==
    IF Available # {}
      THEN /\ i \in Available
           /\ activeClients' = [activeClients EXCEPT ![i] = @ + 1]
           /\ unsettled' = [unsettled EXCEPT ![i] = @ + 1]
      ELSE /\ i = Len(activeClients) + 1
           /\ activeClients' = Append(activeClients, 1)
           /\ unsettled' = Append(unsettled, 1)

\* run(): the count of handle i is decremented when the Promise of the
\* operation settles
Release(i) ==
    /\ activeClients' = [activeClients EXCEPT ![i] = @ - 1]
    /\ unsettled' = [unsettled EXCEPT ![i] = @ - 1]

\* the call is in the operation that the pool runs
InOperation == callPc \in {"timer", "attempt", "returned"}

\* request(...), readStream(...) or readWriteStream(...) is called: it
\* passes its op to _runRequest, which starts the client initialization if
\* this is the first request and chains the op to this._clientInitialized
CallEntered(m, allow, req) ==
    /\ callPc = "idle"
    /\ callPc' = "waiting"
    /\ callMethod' = m
    /\ callAllowRetries' = allow
    /\ callRequest' = req
    /\ IF clientInitialized = Null
         THEN InitClientPool
         ELSE UNCHANGED <<initCalls, clientInitialized, detection>>
    /\ UNCHANGED <<settingsFrozen, initalizationSettings, referencePath,
                   timestampsInSnapshotsEnabled, clientPool, settingsCalls,
                   settingsApplied, lastSettings, requests>>
    /\ UNCHANGED <<gapicClient, decorated, callAttemptsRemaining,
                   callAttempts, opOutcome, callOutcome, streamEnded,
                   otherOperations>>
    /\ UNCHANGED <<poolVars, notCallVars>>

\* this._clientInitialized is rejected: the .then() with
\* this._clientPool.run(op) is skipped
CallRejectedByInit ==
    /\ callPc = "waiting"
    /\ clientInitialized.state = "rejected"
    /\ callOutcome' = Rejected(clientInitialized.err)
    /\ callPc' = "done"
    /\ UNCHANGED <<callMethod, callAllowRetries, callRequest, gapicClient,
                   decorated, callAttemptsRemaining, callAttempts, opOutcome,
                   streamEnded, otherOperations>>
    /\ UNCHANGED <<poolVars, instanceVars, notCallVars>>

\* this._clientPool.run(op): the pool picks handle i and invokes the op with
\* it; the op decorates the request once and enters _retry with the budget
PoolRunsOp(i) ==
    /\ callPc = "waiting"
    /\ clientInitialized.state = "resolved"
    /\ clientPool
    /\ concurrentOperationLimit > 0
    /\ Acquire(i)
    /\ gapicClient' = i
    /\ decorated' = <<DecorateRequest(callRequest)>>
    /\ callAttemptsRemaining' = Attempts(callAllowRetries) - 1
    /\ callPc' = "timer"
    /\ UNCHANGED <<callMethod, callAllowRetries, callRequest, callAttempts,
                   opOutcome, callOutcome, streamEnded, otherOperations>>
    /\ UNCHANGED <<concurrentOperationLimit, lastRun, lastSettled>>
    /\ UNCHANGED <<instanceVars, notCallVars>>

\* what func sends on the handle: request and readStream pass
\* decorated.request; readWriteStream passes {} and writes the request
\* through the transform, which replaces the placeholder at that moment
Payload(m, req, d) ==
    IF m = "readWriteStream"
      THEN ReplaceProjectIdToken(req, referencePath)
      ELSE d.request

\* the timer of _retry fires and func is invoked: it calls
\* gapicClient[methodName] with the handle and the decoration of its closure
CallTimerFired ==
    /\ callPc = "timer"
    /\ callAttempts' = Append(callAttempts,
          [handle |-> gapicClient,
           request |-> Payload(callMethod, callRequest, decorated[1]),
           header |-> decorated[1].header,
           stream |-> IF callMethod = "request" THEN 0
                      ELSE NewStream(Len(callAttempts))])
    /\ callPc' = "attempt"
    /\ UNCHANGED <<callMethod, callAllowRetries, callRequest, gapicClient,
                   decorated, callAttemptsRemaining, opOutcome, callOutcome,
                   streamEnded, otherOperations>>
    /\ UNCHANGED <<poolVars, instanceVars, notCallVars>>

\* func resolves (for the streaming funnels: _initializeStream hands the
\* stream over) and with it the Promise of _retry, which the op returned
CallAttemptResolved(v) ==
    /\ callPc = "attempt"
    /\ opOutcome' = Resolved(IF callMethod = "request" THEN v
                             ELSE StreamValue(Last(callAttempts).stream))
    /\ callPc' = "returned"
    /\ UNCHANGED <<callMethod, callAllowRetries, callRequest, gapicClient,
                   decorated, callAttemptsRemaining, callAttempts,
                   callOutcome, streamEnded, otherOperations>>
    /\ UNCHANGED <<poolVars, instanceVars, notCallVars>>

\* variant: the pool is left at every failed attempt
CallAttemptRejected_release(f) ==
    /\ callPc = "attempt"
    /\ IF \/ Unrecoverable(ErrorOf("rpc", Len(callAttempts), f))
          \/ Exhausted(callAttemptsRemaining)
         THEN /\ opOutcome' =
                    Rejected(ErrorOf("rpc", Len(callAttempts), f))
              /\ callPc' = "returned"
              /\ UNCHANGED <<callAttemptsRemaining, poolVars>>
         ELSE /\ callAttemptsRemaining' = callAttemptsRemaining - 1
              /\ callPc' = "timer"
              /\ Release(gapicClient)
              /\ UNCHANGED <<opOutcome, concurrentOperationLimit, lastRun,
                             lastSettled>>
    /\ UNCHANGED <<callMethod, callAllowRetries, callRequest, gapicClient,
                   decorated, callAttempts, callOutcome, streamEnded,
                   otherOperations>>
    /\ UNCHANGED <<instanceVars, notCallVars>>

\* func rejects: the catch handler of _retry rejects the Promise of the op
\* or enters _retry again with the same func
CallAttemptRejected(f) ==
    /\ callPc = "attempt"
    /\ IF \/ Unrecoverable(ErrorOf("rpc", Len(callAttempts), f))
          \/ Exhausted(callAttemptsRemaining)
         THEN /\ opOutcome' =
                    Rejected(ErrorOf("rpc", Len(callAttempts), f))
              /\ callPc' = "returned"
              /\ UNCHANGED callAttemptsRemaining
         ELSE /\ callAttemptsRemaining' = callAttemptsRemaining - 1
              /\ callPc' = "timer"
              /\ UNCHANGED opOutcome
    /\ UNCHANGED <<callMethod, callAllowRetries, callRequest, gapicClient,
                   decorated, callAttempts, callOutcome, streamEnded,
                   otherOperations>>
    /\ UNCHANGED <<poolVars, instanceVars, notCallVars>>

\* the Promise the op returned has settled: the pool decrements the count of
\* the handle and the Promise of run(), which the funnel returned, settles
OpSettled ==
    /\ callPc = "returned"
    /\ Release(gapicClient)
    /\ callOutcome' = opOutcome
    /\ callPc' = "done"
    /\ UNCHANGED <<callMethod, callAllowRetries, callRequest, gapicClient,
                   decorated, callAttemptsRemaining, callAttempts, opOutcome,
                   streamEnded, otherOperations>>
    /\ UNCHANGED <<concurrentOperationLimit, lastRun, lastSettled>>
    /\ UNCHANGED <<instanceVars, notCallVars>>

\* the stream that was handed to the caller ends
HandedStreamEnds ==
    /\ callPc = "done"
    /\ callMethod # "request"
    /\ callOutcome.state = "resolved"
    /\ ~streamEnded
    /\ streamEnded' = TRUE
    /\ UNCHANGED <<callPc, callMethod, callAllowRetries, callRequest,
                   gapicClient, decorated, callAttemptsRemaining,
                   callAttempts, opOutcome, callOutcome, otherOperations>>
    /\ UNCHANGED <<poolVars, instanceVars, notCallVars>>

\* another call of the instance has its op run by the pool on handle i
OtherRun(i) ==
    /\ clientPool
    /\ concurrentOperationLimit > 0
    /\ Sum(otherOperations) < MaxExtraOperations
    /\ Acquire(i)
    /\ otherOperations' = [otherOperations EXCEPT ![i] = @ + 1]
    /\ UNCHANGED <<callPc, callMethod, callAllowRetries, callRequest,
                   gapicClient, decorated, callAttemptsRemaining,
                   callAttempts, opOutcome, callOutcome, streamEnded>>
    /\ UNCHANGED <<concurrentOperationLimit, lastRun, lastSettled>>
    /\ UNCHANGED <<instanceVars, notCallVars>>

\* the op of another call settles on handle i
OtherSettled(i) ==
    /\ otherOperations[i] > 0
    /\ Release(i)
    /\ otherOperations' = [otherOperations EXCEPT ![i] = @ - 1]
    /\ UNCHANGED <<callPc, callMethod, callAllowRetries, callRequest,
                   gapicClient, decorated, callAttemptsRemaining,
                   callAttempts, opOutcome, callOutcome, streamEnded>>
    /\ UNCHANGED <<concurrentOperationLimit, lastRun, lastSettled>>
    /\ UNCHANGED <<instanceVars, notCallVars>>

NextCall ==
    \/ \E c \in Ceilings : NewClientPool(c)
    \/ \E m \in Methods, a \in BOOLEAN, req \in CallRequests :
          CallEntered(m, a, req)
    \/ \E p \in ProjectIds : DetectResolved(p)
    \/ \E f \in CallFailures : DetectRejected(f)
    \/ CallRejectedByInit
    \/ \E i \in Handles : PoolRunsOp(i)
    \/ CallTimerFired
    \/ \E v \in Values : CallAttemptResolved(v)
    \/ \E f \in BackendFailures : CallAttemptRejected(f)
    \/ OpSettled
    \/ HandedStreamEnds
    \/ \E i \in Handles : OtherRun(i)
    \/ \E i \in Handles : OtherSettled(i)

(***************************************************************************)
(* Specifications                                                          *)
(***************************************************************************)
Init ==
    /\ InitTxnVars
    /\ InitRetryVars
    /\ InitStreamVars
    /\ InitPoolVars
    /\ InitInstanceVars
    /\ InitCallVars

\* one call of runTransaction
SpecTxn == Init /\ [][NextTxn]_vars

\* one call of request, readStream or readWriteStream
SpecRetry == Init /\ [][NextRetry]_vars

\* one transport stream handed to _initializeStream, and its consumer
SpecStream == Init /\ [][NextStream]_vars

\* one call of getAll_ and the stream it consumes
SpecBatchGet == Init /\ [][NextBatchGet]_vars

\* one pool and the operations run through it
SpecPool == Init /\ [][NextPool]_vars

\* one Firestore instance: calls of settings() and requests
SpecInstance == Init /\ [][NextInstance]_vars

\* one pooled call next to the operations of other calls
SpecCall == Init /\ [][NextCall]_vars

\* a caller that makes one call: runTransaction, or one of the funnels
StartTransaction(maxAttempts) ==
    /\ rpc = "idle"
    /\ RunTransaction(maxAttempts, 0)

StartRequest(allow) ==
    /\ tpc = "idle"
    /\ Request(allow)

StartReadStream(allow) ==
    /\ tpc = "idle"
    /\ ReadStream(allow)

StartReadWriteStream(allow) ==
    /\ tpc = "idle"
    /\ ReadWriteStream(allow)

\* the steps of a running runTransaction: begin, the user's function, the
\* rollback and the commit settle, and the handlers chained to them run; one
\* value stands for what a call resolves with
TransactionProgress ==
    \/ \E f \in CallFailures : BeginRejected(f)
    \/ BeginResolvedPromise
    \/ \E v \in {MaxValue} : BeginResolvedValue(v)
    \/ \E f \in CallFailures : BeginResolvedThrow(f)
    \/ \E v \in {MaxValue} : UserResolved(v)
    \/ \E f \in CallFailures : UserRejected(f)
    \/ RollbackResolved
    \/ \E f \in CallFailures : RollbackRejected(f)
    \/ \E v \in {MaxValue} : CommitResolved(v)
    \/ \E f \in BackendFailures : CommitRejected(f)

\* the steps of a running _retry: the timer fires, the attempt settles and
\* the handlers chained to it run
RetryProgress ==
    \/ TimerFired
    \/ \E v \in {MaxValue} : FuncResolved(v)
    \/ \E f \in BackendFailures : FuncRejected(f)

NextTermination ==
    \/ \E m \in 0..MaxBudget : StartTransaction(m)
    \/ \E a \in BOOLEAN : StartRequest(a)
    \/ \E a \in BOOLEAN : StartReadStream(a)
    \/ \E a \in BOOLEAN : StartReadWriteStream(a)
    \/ TransactionProgress
    \/ RetryProgress

\* every backend call and every Promise of the user's function settles, the
\* timers of setTimeout fire and the handlers of settled Promises run
SpecTermination ==
    /\ Init
    /\ [][NextTermination]_vars
    /\ WF_vars(TransactionProgress)
    /\ WF_vars(RetryProgress)


(***************************************************************************)
(* Properties of runTransaction (checked under SpecTxn)                    *)
(***************************************************************************)
\* the attempt budget N of the call as the caller sees it: maxAttempts when
\* given, 5 otherwise
Budget == IF optMaxAttempts = 0 THEN 5 ELSE optMaxAttempts

AllRejected(s) == \A i \in 1..Len(s) : s[i].state = "rejected"

\* the errors of the user function in attempt i (rejected future, thrown
\* error, or the error made for a return value that is not a Promise)
UserFailure(e) == e.op \in {"user", "nopromise"}

\* C1: for every budget N and every k < N, when the commit fails in the
\* first k attempts and succeeds in attempt k+1, runTransaction has made
\* exactly k+1 begin/run/commit cycles, has invoked the user function k+1
\* times and resolves with the value the user function returned in attempt
\* k+1; k < N failed commits never end the call.
C1_CommitSucceedsAfterFailures ==
    LET n == Len(commits) IN
    /\ (n >= 1 /\ commits[n].state = "resolved") =>
          /\ n <= Budget
          /\ AllRejected(SubSeq(commits, 1, n - 1))
          /\ tpc = "done"
          /\ Len(begins) = n
          /\ Len(userCalls) = n
          /\ txOutcome = Resolved(userCalls[n].val)
    /\ (tpc # "idle" /\ AllRejected(commits) /\ n < Budget) =>
          Len(begins) = n + 1

\* C1 witness: with the default budget two commits failed, the third one
\* succeeded and the third attempt's value differs from the first one's
C1_Witness ==
    /\ tpc = "done"
    /\ optMaxAttempts = 0
    /\ Len(commits) = 3
    /\ commits[3].state = "resolved"
    /\ userCalls[3].val # userCalls[1].val
    /\ userCalls[3].val # commits[3].val

\* C2: when every commit fails, runTransaction makes exactly N cycles (5
\* when maxAttempts is not given), never an (N+1)-th, and rejects with the
\* error of the N-th commit.
C2_AllCommitsFail ==
    LET n == Len(commits) IN
    /\ Len(begins) <= Budget
    /\ Len(userCalls) <= Budget
    /\ n <= Budget
    /\ (tpc # "idle" /\ AllRejected(commits) /\ n < Budget) =>
          /\ Len(begins) = n + 1
          /\ \A i \in 1..n : txOutcome # Rejected(commits[i].err)
    /\ (AllRejected(commits) /\ n = Budget) =>
          /\ tpc = "done"
          /\ Len(begins) = Budget
          /\ Len(userCalls) = Budget
          /\ txOutcome = Rejected(commits[Budget].err)

\* C2 witness: no maxAttempts was given and five commits failed, the last
\* two with different codes
C2_Witness ==
    /\ tpc = "done"
    /\ optMaxAttempts = 0
    /\ Len(commits) = 5
    /\ AllRejected(commits)
    /\ commits[5].err.code # commits[4].err.code

\* C3: when the user function's future rejects with E, a rollback is issued
\* for that attempt, no commit is issued for it, no further attempt is
\* started and runTransaction rejects with exactly E.
C3_UserRejectionPropagates ==
    LET n == Len(userCalls) IN
    (n >= 1 /\ userCalls[n].state = "rejected") =>
        /\ Len(rollbacks) = 1
        /\ Len(commits) = n - 1
        /\ Len(begins) = n
        /\ tpc \in {"rollback", "done"}
        /\ (tpc = "done" => txOutcome = Rejected(userCalls[n].err))

\* C4: when the user function's future rejects with E and the rollback
\* fails with R, runTransaction rejects with E and never with R.
C4_RollbackFailureSwallowed ==
    LET n == Len(userCalls) IN
    (/\ tpc = "done"
     /\ n >= 1 /\ userCalls[n].state = "rejected"
     /\ Len(rollbacks) = 1 /\ rollbacks[1].state = "rejected") =>
        /\ txOutcome = Rejected(userCalls[n].err)
        /\ txOutcome # rollbacks[1]

\* C5: when the user function returns something that is not a Promise, the
\* transaction is rolled back, not committed, not retried, and runTransaction
\* rejects with the 'must return a Promise' error.
C5_NonPromiseIsFailure ==
    LET n == Len(userCalls) IN
    (n >= 1 /\ userCalls[n].state = "value") =>
        /\ Len(rollbacks) = 1
        /\ Len(commits) = n - 1
        /\ Len(begins) = n
        /\ tpc \in {"rollback", "done"}
        /\ (tpc = "done" =>
              /\ txOutcome.state = "rejected"
              /\ txOutcome.err.op = "nopromise")

\* C6: a commit failure with budget remaining, whatever its code, is hidden
\* from the caller and followed by a new attempt; the only errors
\* runTransaction surfaces are a commit failure with the budget exhausted, a
\* user-function failure or a failure of begin.
C6_OnlyBudgetDecidesRetry ==
    /\ \A i \in 1..Len(commits) :
          (commits[i].state = "rejected" /\ i < Budget) =>
              /\ Len(begins) > i
              /\ txOutcome # commits[i]
    /\ txOutcome.state = "rejected" =>
          \/ /\ txOutcome.err.op = "commit"
             /\ Len(commits) = Budget
             /\ txOutcome = commits[Budget]
          \/ UserFailure(txOutcome.err)
          \/ txOutcome.err.op = "begin"

(***************************************************************************)
(* Properties of the request funnels and _retry (checked under SpecRetry)  *)
(***************************************************************************)
\* a transient error: code 'unavailable' (14) or no code at all
Transient(e) == ~e.hasCode \/ e.code = 14

AllTransient(s) ==
    \A i \in 1..Len(s) : s[i].state = "rejected" /\ Transient(s[i].err)

\* C7: for a retryable call and every k < 5, when the first k attempts fail
\* with a transient error and attempt k+1 succeeds, the RPC was invoked
\* exactly k+1 times and the call resolves with the value of attempt k+1;
\* fewer than 5 transient failures never end the call.
C7_SucceedsAfterTransientFailures ==
    LET n == Len(results) IN
    allowRetries =>
        /\ (n >= 1 /\ results[n].state = "resolved") =>
              /\ n <= 5
              /\ AllTransient(SubSeq(results, 1, n - 1))
              /\ rpc = "done"
              /\ invocations = n
              /\ reqOutcome = Resolved(results[n].val)
        /\ (rpc # "idle" /\ AllTransient(results) /\ n < 5) =>
              /\ rpc \in {"timer", "call"}
              /\ reqOutcome = Pending

\* C7 witness: a retryable request failed four times, once without a code,
\* and succeeded in the fifth attempt
C7_Witness ==
    /\ allowRetries
    /\ method = "request"
    /\ rpc = "done"
    /\ Len(results) = 5
    /\ results[5].state = "resolved"
    /\ \E i \in 1..4 : ~results[i].err.hasCode
    /\ \E i \in 1..4 : results[i].err.hasCode

\* C8: an attempt failing with a defined code other than 14 is the last
\* one, whatever budget remains, and the call rejects with exactly that
\* error.
C8_TerminalErrorStops ==
    \A i \in 1..Len(results) :
        (/\ results[i].state = "rejected"
         /\ results[i].err.hasCode
         /\ results[i].err.code # 14) =>
            /\ i = Len(results)
            /\ invocations = i
            /\ rpc = "done"
            /\ reqOutcome = Rejected(results[i].err)

\* C8 witness: the first attempt of a retryable call failed with code 0 and
\* the call is over after one attempt
C8_Witness ==
    /\ allowRetries
    /\ rpc = "done"
    /\ invocations = 1
    /\ Len(results) = 1
    /\ results[1].state = "rejected"
    /\ results[1].err.hasCode
    /\ results[1].err.code = 0
    /\ retryAttemptsRemaining = 4

\* C9: a retryable call all of whose attempts fail with transient errors
\* makes exactly 5 attempts and rejects with the error of the 5th; the
\* remaining-attempts counter goes down by one per attempt and never below
\* zero.
C9_ExhaustsBudget ==
    LET n == Len(results) IN
    (allowRetries /\ AllTransient(results)) =>
        /\ n <= 5
        /\ invocations <= 5
        /\ (rpc # "idle" /\ n < 5) => rpc # "done"
        /\ (n = 5) =>
              /\ rpc = "done"
              /\ invocations = 5
              /\ reqOutcome = Rejected(results[5].err)
        /\ \A i \in 1..Len(remainingLog) : remainingLog[i] = 5 - i
        /\ retryAttemptsRemaining >= 0

\* C9 witness: five transient failures, the call rejected and the counter
\* at zero
C9_Witness ==
    /\ allowRetries
    /\ rpc = "done"
    /\ Len(results) = 5
    /\ AllTransient(results)
    /\ retryAttemptsRemaining = 0
    /\ reqOutcome.state = "rejected"

\* C10: a request, readStream or readWriteStream call with allowRetries
\* false makes exactly one attempt; its failure, transient or not, rejects
\* the call with that error.
C10_NoRetriesSingleAttempt ==
    (rpc # "idle" /\ ~allowRetries) =>
        /\ invocations <= 1
        /\ Len(results) <= 1
        /\ (Len(results) = 1) =>
              /\ rpc = "done"
              /\ invocations = 1
              /\ reqOutcome = results[1]

\* C10 witness: a readWriteStream call without retries was rejected by a
\* transient error of its only attempt
C10_Witness ==
    /\ ~allowRetries
    /\ method = "readWriteStream"
    /\ rpc = "done"
    /\ invocations = 1
    /\ results[1].state = "rejected"
    /\ Transient(results[1].err)
    /\ reqOutcome = results[1]

\* C11: within one retry chain the delay before attempt 1 is zero and the
\* delay before every later attempt is the same 100 ms; the clock read at
\* an invocation is the sum of the delays waited so far.
C11_FixedDelay ==
    /\ \A i \in 1..Len(delays) : delays[i] = IF i = 1 THEN 0 ELSE 100
    /\ currentDelay \in {0, 100}
    /\ rpc \in {"call", "done"} => now = 100 * (invocations - 1)

\* C11 witness: a fifth attempt was scheduled, 400 ms after the first one
C11_Witness ==
    /\ Len(delays) = 5
    /\ delays[1] = 0
    /\ delays[5] = 100
    /\ rpc = "done"
    /\ now = 400

(***************************************************************************)
(* Properties of _initializeStream (checked under SpecStream)              *)
(***************************************************************************)
\* the positions of the consumer's events that satisfy P
EventsWhere(P(_)) == {k \in 1..Len(consumerEvents) : P(consumerEvents[k])}

SignalTypes == {signals[i].type : i \in 1..Len(signals)}

\* C12: when the first signal of the transport is an error, the Promise of
\* _initializeStream rejects with exactly that error, resolve() is never
\* called and no stream reaches a consumer, whatever signals follow.
C12_InitialErrorRejects ==
    (Len(signals) >= 1 /\ signals[1].type = "error") =>
        /\ stream.promise = Rejected(signals[1].payload[1])
        /\ stream.resolveCalls = 0
        /\ ~attached
        /\ consumerEvents = <<>>

\* C12 witness: an initial error was followed by a readable, an end and the
\* write callback
C12_Witness ==
    /\ Len(signals) = 4
    /\ signals[1].type = "error"
    /\ {"readable", "end", "ack"} \subseteq SignalTypes
    /\ stream.promise.state = "rejected"

\* C13: an error the transport emits after the stream was released is
\* observed by the listening consumer exactly once, whatever follows.
C13_ReleasedErrorOnce ==
    \A i \in 1..Len(signals) :
        (signals[i].type = "error" /\ signals[i].released
                                   /\ signals[i].attached) =>
            Cardinality(EventsWhere(
                LAMBDA e : e = ErrorEvent(signals[i].payload[1]))) = 1

\* the number of 'end' events the consumer has observed
EndsSeen == Cardinality(EventsWhere(LAMBDA e : e.type = "end"))

\* C14: the consumer observes 'end' exactly once when the transport's end
\* came before the release (and the deferred forwarding has run), and never
\* more than once in any interleaving.
C14_EndOnce ==
    /\ EndsSeen <= 1
    /\ (/\ \E i \in 1..Len(signals) :
              signals[i].type = "end" /\ ~signals[i].released
        /\ attached
        /\ ~stream.timerPending) => EndsSeen = 1

\* C15: for every sequence of signals the Promise of _initializeStream is
\* settled at most once: resolve() is called at most once and never together
\* with reject().
C15_SettledOnce ==
    /\ stream.resolveCalls + stream.rejectCalls <= 1
    /\ stream.resolveCalls = 1 <=> stream.promise.state = "resolved"
    /\ stream.rejectCalls = 1 <=> stream.promise.state = "rejected"

\* C15 witness: a released stream has seen all four kinds of signals
C15_Witness ==
    /\ stream.resolveCalls = 1
    /\ Len(signals) = 4
    /\ {"error", "end", "ack"} \subseteq SignalTypes
    /\ SignalTypes \cap {"readable", "data"} # {}

\* C16: the stream is paused from the moment the Promise resolves until the
\* consumer resumes it, and the data that arrived is delivered to the
\* consumer in arrival order, exactly once, nothing staying behind after the
\* resume.
C16_PausedNoLoss ==
    LET del == SelectSeq(consumerEvents, LAMBDA e : e.type = "data")
        arr == SelectSeq(signals, LAMBDA x : x.type = "data")
    IN
    /\ (stream.promise.state = "resolved" /\ ~attached) =>
          stream.flowing = "false"
    /\ \A k \in 1..Len(del) : del[k].item = arr[k].payload[1]
    /\ \A k \in 1..Len(stream.buffer) :
          stream.buffer[k] = arr[Len(del) + k].payload[1]
    /\ Len(del) + Len(stream.buffer) = Len(arr)
    /\ attached => stream.buffer = <<>>

\* C16 witness: two items arrived before the consumer resumed, one after,
\* and all three were delivered
C16_Witness ==
    LET del == SelectSeq(consumerEvents, LAMBDA e : e.type = "data")
        arr == SelectSeq(signals, LAMBDA x : x.type = "data")
    IN
    /\ attached
    /\ Len(arr) = 3
    /\ ~arr[1].attached /\ ~arr[2].attached /\ arr[3].attached
    /\ Len(del) = 3
    /\ del[1].item.found # del[2].item.found

\* C17: with an initial payload the Promise resolves as soon as the write is
\* acknowledged, unless an error came first; without one there is no write
\* and the Promise resolves only on a readable or end signal.
C17_WriteAckReleases ==
    /\ \A i \in 1..Len(signals) :
          (/\ signals[i].type = "ack"
           /\ \A j \in 1..(i - 1) : signals[j].type # "error") =>
              /\ stream.promise.state = "resolved"
              /\ stream.resolveCalls = 1
    /\ ~hasRequest =>
          /\ "ack" \notin SignalTypes
          /\ stream.promise.state = "resolved" =>
                SignalTypes \cap {"readable", "data", "end"} # {}

\* C17 witness: the write callback was the only signal and the stream is
\* released
C17_Witness ==
    /\ hasRequest
    /\ Len(signals) = 1
    /\ signals[1].type = "ack"
    /\ stream.promise.state = "resolved"

(***************************************************************************)
(* Properties of getAll_ (checked under SpecBatchGet)                      *)
(***************************************************************************)
\* the position of the first 'end' the listeners of getAll_ received (0: none)
FirstEnd ==
    LET ends == EventsWhere(LAMBDA e : e.type = "end")
    IN IF ends = {} THEN 0
       ELSE CHOOSE k \in ends : \A j \in ends : k <= j

\* the positions before the first 'end' of the results for path p
ResultsFor(p) ==
    {k \in 1..(FirstEnd - 1) :
        /\ consumerEvents[k].type = "data"
        /\ PathOf(consumerEvents[k].item.name) = p}

\* the latest result for path p before the first 'end'
LatestFor(p) ==
    LET k == CHOOSE k \in ResultsFor(p) : \A j \in ResultsFor(p) : j <= k
    IN Snapshot(consumerEvents[k].item)

\* the stream ended without an earlier error
EndedCleanly ==
    /\ FirstEnd > 0
    /\ \A k \in 1..(FirstEnd - 1) : consumerEvents[k].type # "error"

\* the positions in docRefs of the references without result at the end
MissingAtEnd == {i \in 1..Len(docRefs) : ResultsFor(docRefs[i]) = {}}

\* C18: the request names each canonical path once; when the stream ends and
\* every requested path has a result, getAll_ resolves with one entry per
\* requested reference, in the order of the caller, repeats repeated.
C18_OrderedResult ==
    /\ opened =>
          /\ \A i, j \in 1..Len(requestDocuments) :
                requestDocuments[i] = requestDocuments[j] => i = j
          /\ {requestDocuments[i] : i \in 1..Len(requestDocuments)}
                = {FormattedName(docRefs[i]) : i \in 1..Len(docRefs)}
    /\ getAllOutcome.state = "resolved" =>
          /\ Len(getAllOutcome.val) = Len(docRefs)
          /\ \A i \in 1..Len(docRefs) :
                /\ getAllOutcome.val[i] # Undefined
                /\ getAllOutcome.val[i].path = docRefs[i]
    /\ (EndedCleanly /\ MissingAtEnd = {}) =>
          getAllOutcome =
              Resolved([i \in 1..Len(docRefs) |-> LatestFor(docRefs[i])])

\* C18 witness: the results arrived in the opposite order of the request
C18_Witness ==
    /\ docRefs = <<2, 1>>
    /\ getAllOutcome.state = "resolved"
    /\ Len(consumerEvents) >= 3
    /\ consumerEvents[1].type = "data"
    /\ PathOf(consumerEvents[1].item.name) = 1
    /\ getAllOutcome.val[1].path = 2

\* C19: when the stream ends and a requested path has no result, getAll_
\* rejects with the 'Did not receive document' error of the first such path;
\* it never resolves with a short list or an undefined entry.
C19_MissingRejects ==
    /\ (EndedCleanly /\ MissingAtEnd # {}) =>
          LET first == CHOOSE i \in MissingAtEnd :
                           \A j \in MissingAtEnd : i <= j
          IN getAllOutcome = Rejected(DidNotReceive(docRefs[first]))
    /\ getAllOutcome.state = "resolved" =>
          /\ Len(getAllOutcome.val) >= Len(docRefs)
          /\ \A i \in 1..Len(getAllOutcome.val) :
                getAllOutcome.val[i] # Undefined

\* C19 witness: one of two requested documents arrived before the end
C19_Witness ==
    /\ docRefs = <<1, 2>>
    /\ EndedCleanly
    /\ ResultsFor(1) # {}
    /\ MissingAtEnd = {2}
    /\ getAllOutcome.state = "rejected"

(***************************************************************************)
(* Properties of the ClientPool (checked under SpecPool)                   *)
(***************************************************************************)
\* C20: whatever the ceiling and the interleaving of operations starting and
\* settling, no handle has more operations in flight than the ceiling; a
\* run() that finds every handle at the ceiling creates a new handle for
\* the operation.
C20_CeilingRespected ==
    /\ \A k \in 1..Len(activeClients) :
          activeClients[k] <= concurrentOperationLimit
    /\ lastRun.saturated => lastRun.created
    /\ lastRun.created => lastRun.handle = Len(activeClients)

\* C20 witness: the first handle of the program's pool is at the ceiling
\* and the next operation went to a second handle
C20_Witness ==
    /\ concurrentOperationLimit = MAX_CONCURRENT_REQUESTS_PER_CLIENT
    /\ activeClients = <<MAX_CONCURRENT_REQUESTS_PER_CLIENT, 1>>
    /\ lastRun.created
    /\ lastRun.handle = 2

\* C21: the count of a handle goes up when an operation is invoked on it and
\* down once when that operation's Promise settles, resolved or rejected: it
\* always equals the number of the handle's unsettled operations, and is
\* zero for every handle once all operations have settled.
C21_CountIsUnsettled ==
    /\ Len(activeClients) = Len(unsettled)
    /\ \A k \in 1..Len(activeClients) : activeClients[k] = unsettled[k]
    /\ Sum(unsettled) = 0 =>
          \A k \in 1..Len(activeClients) : activeClients[k] = 0

\* C21 witness: operations ran on two handles, the last one to settle
\* rejected, and nothing is in flight
C21_Witness ==
    /\ Len(activeClients) = 2
    /\ Sum(unsettled) = 0
    /\ lastSettled = "rejected"
    /\ activeClients = <<0, 0>>

(***************************************************************************)
(* Further properties of the request funnels (checked under SpecRetry)     *)
(***************************************************************************)
\* C22: in readStream and readWriteStream every attempt opens a transport
\* stream of its own and resolves only with that stream; the caller gets the
\* stream of the last attempt, never one whose initialization failed; a
\* failed attempt is retried exactly when its error has no code or code 14
\* and fewer than Attempts(allowRetries) attempts were made.
C22_FreshStreamPerAttempt ==
    LET n == Len(results) IN
    method \in {"readStream", "readWriteStream"} =>
        /\ Len(attemptStreams) = invocations
        /\ \A i, j \in 1..Len(attemptStreams) :
              attemptStreams[i] = attemptStreams[j] => i = j
        /\ \A i \in 1..n :
              results[i].state = "resolved" =>
                  results[i].val = StreamValue(attemptStreams[i])
        /\ reqOutcome.state = "resolved" =>
              /\ results[n].state = "resolved"
              /\ reqOutcome.val = StreamValue(attemptStreams[n])
              /\ \A i \in 1..n :
                    results[i].state = "rejected" =>
                        reqOutcome.val # StreamValue(attemptStreams[i])
        /\ invocations <= MAX_REQUEST_RETRIES
        /\ \A i \in 1..n :
              results[i].state = "rejected" =>
                  ((i = n /\ rpc = "done") <=>
                      ~(/\ Transient(results[i].err)
                        /\ i < Attempts(allowRetries)))

\* C22 witness: a readStream call was handed the stream of its third
\* attempt after two streams failed before release
C22_Witness ==
    /\ method = "readStream"
    /\ allowRetries
    /\ rpc = "done"
    /\ Len(results) = 3
    /\ results[1].state = "rejected"
    /\ results[2].state = "rejected"
    /\ reqOutcome = Resolved(StreamValue(attemptStreams[3]))

\* an attempt settled in this step
AttemptSettled == Len(results') = Len(results) + 1

\* C25: the timestamp of the last successful request is written only by an
\* attempt that succeeds, with the clock of that moment; an attempt that
\* fails leaves it as it was, whether the call is retried or rejected.
C25_TimestampOnSuccessOnly ==
    [][/\ (AttemptSettled /\ Last(results').state = "rejected") =>
              lastSuccessfulRequest' = lastSuccessfulRequest
       /\ (AttemptSettled /\ Last(results').state = "resolved") =>
              lastSuccessfulRequest' = <<now>>
       /\ (rpc # "idle" /\ lastSuccessfulRequest' # lastSuccessfulRequest) =>
              (AttemptSettled /\ Last(results').state = "resolved")]_vars

\* C25 witness: five failed attempts left the timestamp of an earlier
\* request in place
C25_Witness ==
    /\ rpc = "done"
    /\ Len(results) = 5
    /\ reqOutcome.state = "rejected"
    /\ lastSuccessfulRequest # <<>>
    /\ lastSuccessfulRequest[1] < 0

(***************************************************************************)
(* Further properties of runTransaction (checked under SpecTxn)            *)
(***************************************************************************)
\* the number of entries of log s in one of the given states
CountIn(s, states) == Cardinality({i \in 1..Len(s) : s[i].state \in states})

\* C26: in every attempt the steps are begin, user function, then commit or
\* rollback: updateFunction was invoked once per begin that completed and
\* for no other, a commit was issued once per user Promise that resolved and
\* for no other, a rollback once per user Promise that rejected (or value
\* that is no Promise), and the call is at the step the logs show.
C26_StepOrder ==
    /\ Len(userCalls) = CountIn(begins, {"resolved"})
    /\ Len(commits) = CountIn(userCalls, {"resolved"})
    /\ Len(rollbacks) = CountIn(userCalls, {"rejected", "value"})
    /\ Len(commits) + Len(rollbacks) <= Len(begins)
    /\ tpc = "begin" => Last(begins).state = "pending"
    /\ tpc = "run" =>
          Last(userCalls).state = "pending" /\ Len(userCalls) = Len(begins)
    /\ tpc = "commit" =>
          /\ Last(commits).state = "pending"
          /\ Last(userCalls).state = "resolved"
          /\ Len(userCalls) = Len(begins)
    /\ tpc = "rollback" =>
          /\ Last(rollbacks).state = "pending"
          /\ Last(userCalls).state \in {"rejected", "value"}
          /\ Len(userCalls) = Len(begins)

\* C26 witness: a first attempt went through begin, user function and a
\* failed commit, the second through begin, user function and rollback
C26_Witness ==
    /\ tpc = "done"
    /\ Len(begins) = 2
    /\ Len(userCalls) = 2
    /\ Len(commits) = 1
    /\ Len(rollbacks) = 1
    /\ userCalls[2].state = "rejected"

\* C27: every attempt has a Transaction of its own; the first one is given
\* the previousTransaction of the caller (none when the caller gave none),
\* every later one the Transaction of the attempt just before it.
C27_PreviousTransactionChain ==
    tpc # "idle" =>
        /\ transaction = Len(begins)
        /\ previousTransaction =
              IF transaction = 1 THEN optPrevious ELSE transaction - 1

\* C27 witness: the third attempt of a call whose caller passed a previous
\* transaction references the second attempt
C27_Witness ==
    /\ optPrevious = -1
    /\ transaction = 3
    /\ previousTransaction = 2
    /\ tpc = "begin"

\* C28: when begin fails, in whatever attempt, runTransaction rejects with
\* the error of that begin; updateFunction is not invoked and no commit and
\* no rollback is issued in that attempt, and no attempt follows even when
\* attemptsRemaining is positive.
C28_BeginFailureIsFinal ==
    \A i \in 1..Len(begins) :
        begins[i].state = "rejected" =>
            /\ i = Len(begins)
            /\ tpc = "done"
            /\ txOutcome = Rejected(begins[i].err)
            /\ Len(userCalls) = i - 1
            /\ Len(commits) = i - 1
            /\ rollbacks = <<>>

\* C28 witness: the begin of the second attempt failed with budget left
C28_Witness ==
    /\ Len(begins) = 2
    /\ begins[2].state = "rejected"
    /\ attemptsRemaining > 0
    /\ txOutcome.state = "rejected"

\* C29: when updateFunction throws, runTransaction rejects with the thrown
\* error; neither a commit nor a rollback is issued for that attempt and no
\* attempt follows.
C29_SyncThrowPropagates ==
    \A i \in 1..Len(userCalls) :
        userCalls[i].state = "thrown" =>
            /\ i = Len(userCalls)
            /\ Len(begins) = i
            /\ tpc = "done"
            /\ txOutcome = Rejected(userCalls[i].err)
            /\ Len(commits) = i - 1
            /\ rollbacks = <<>>

\* C29 witness: updateFunction threw in the second attempt, with budget left
C29_Witness ==
    /\ Len(userCalls) = 2
    /\ userCalls[2].state = "thrown"
    /\ attemptsRemaining > 0
    /\ txOutcome.state = "rejected"

(***************************************************************************)
(* Properties of one Firestore instance (checked under SpecInstance)       *)
(***************************************************************************)
\* C23: nothing is sent before the project id is known: whatever a request
\* sent was sent after the client initialization resolved, carries the
\* project id of the reference path (given in the settings or detected) in
\* place of the placeholder, and the routing header is the database name
\* with that project id, also for a request object built with the
\* placeholder.
C23_DecoratedAfterResolution ==
    \A r \in RequestIds :
        requests[r].sent # <<>> =>
            /\ clientInitialized.state = "resolved"
            /\ detection.state \in {"null", "resolved"}
            /\ referencePath # Placeholder
            /\ referencePath =
                  IF detection.state = "resolved" THEN detection.val
                  ELSE initalizationSettings.projectId
            /\ requests[r].sent[1].request = referencePath
            /\ requests[r].sent[1].header = DatabaseName(referencePath)

\* C23 witness: a request built with the placeholder before the detection
\* was sent with the detected project id
C23_Witness ==
    /\ requests[1].request = Placeholder
    /\ detection = Resolved(2)
    /\ requests[1].sent # <<>>
    /\ requests[1].sent[1].request = 2

\* C24: settings() returns at most once on one instance and only before
\* the first request started the client initialization; a call that throws
\* changes neither the settings nor the reference path nor the frozen flag.
C24_SettingsOnce ==
    [][settingsCalls' = settingsCalls + 1 =>
          /\ settingsApplied' <= 1
          /\ settingsApplied' # settingsApplied =>
                /\ clientInitialized = Null
                /\ initCalls = 0
                /\ \A r \in RequestIds : requests[r].state = "none"
          /\ settingsApplied' = settingsApplied =>
                UNCHANGED <<initalizationSettings, referencePath,
                            settingsFrozen, timestampsInSnapshotsEnabled>>
      ]_vars

\* C24 witness: after one call that returned, a call threw because a
\* request had started the client
C24_Witness ==
    /\ settingsApplied = 1
    /\ settingsCalls = 3
    /\ lastSettings = "started"
    /\ settingsFrozen
    /\ initalizationSettings.projectId = 2

\* C30: _initClientPool is called at most once, by the first request; every
\* request issued before the initialization resolves stays behind it: none
\* has run its operation or sent anything.
C30_InitializedOnce ==
    /\ initCalls <= 1
    /\ initCalls = 1 <=> requests[1].state # "none"
    /\ initCalls = 1 <=> clientInitialized # Null
    /\ detection.state # "null" => initCalls = 1
    /\ clientInitialized.state # "resolved" =>
          \A r \in RequestIds :
              /\ requests[r].state \in {"none", "waiting", "failed"}
              /\ requests[r].sent = <<>>
    /\ clientPool <=> clientInitialized.state = "resolved"

\* C30 witness: two requests wait for the one pending detection
C30_Witness ==
    /\ \A r \in RequestIds : requests[r].state = "waiting"
    /\ detection = Pending
    /\ clientInitialized = Pending
    /\ initCalls = 1

(***************************************************************************)
(* C31: when the detection of the project id fails during the              *)
(* initialization of the client pool, the request that started it and      *)
(* every later request of the instance reject with the error of the        *)
(* detection; the initialization is started once only, this._clientPool    *)
(* is never assigned and no operation of a request is run or sent.         *)
(***************************************************************************)
C31_DetectionFailureIsFinal ==
    detection.state = "rejected" =>
        /\ clientInitialized = Rejected(detection.err)
        /\ initCalls = 1
        /\ ~clientPool
        /\ \A r \in RequestIds :
              /\ requests[r].state \in {"none", "waiting", "failed"}
              /\ requests[r].sent = <<>>
              /\ requests[r].state = "failed" =>
                    requests[r].error = <<detection.err>>

\* the request that started the initialization and one that came after the
\* failed detection have both been rejected
C31_Witness ==
    /\ detection.state = "rejected"
    /\ requests[1].state = "failed"
    /\ requests[1].found = "null"
    /\ \E r \in RequestIds :
          /\ requests[r].found = "rejected"
          /\ requests[r].state = "failed"

(***************************************************************************)
(* C32: every attempt of one request, readStream or readWriteStream call   *)
(* uses the handle the pool gave to the op and the same decorated payload  *)
(* and routing header; the handle's count includes the call from the       *)
(* moment the op is run until the Promise of the op has settled, also      *)
(* while _retry waits between attempts; for the streaming funnels the      *)
(* count no longer includes the call once the stream is handed over,       *)
(* whether or not the stream has ended.                                    *)
(***************************************************************************)
C32_SameHandleSlotHeld ==
    /\ \A k \in 1..Len(callAttempts) :
          /\ callAttempts[k].handle = gapicClient
          /\ callAttempts[k].handle = callAttempts[1].handle
          /\ callAttempts[k].request = callAttempts[1].request
          /\ callAttempts[k].request = decorated[1].request
          /\ callAttempts[k].header = decorated[1].header
    /\ \A h \in 1..Len(activeClients) :
          activeClients[h] = otherOperations[h]
              + (IF InOperation /\ gapicClient = h THEN 1 ELSE 0)
    /\ InOperation => gapicClient \in 1..Len(activeClients)
    /\ (callPc = "done" /\ callOutcome.state = "resolved")
          => activeClients[gapicClient] = otherOperations[gapicClient]

\* a readStream call whose request held the placeholder got the second
\* handle, failed twice and was retried while the first handle became free,
\* and its stream has been handed over and has not ended
C32_Witness ==
    /\ callPc = "done"
    /\ callMethod = "readStream"
    /\ callRequest = Placeholder
    /\ callOutcome.state = "resolved"
    /\ ~streamEnded
    /\ Len(callAttempts) = 3
    /\ gapicClient = 2
    /\ activeClients = <<0, 0>>

\* the events the consumer received in this step, and the errors among them
NewConsumerEvents ==
    SubSeq(consumerEvents', Len(consumerEvents) + 1, Len(consumerEvents'))

NewConsumerErrors == SelectSeq(NewConsumerEvents, LAMBDA e : e.type = "error")

\* this step is the arrival of a signal of the transport of one of the types
NewSignal(types) ==
    /\ Len(signals') = Len(signals) + 1
    /\ Last(signals').type \in types

\* this step runs releaseStream(): a 'readable' (also the one that announces
\* buffered data), an 'end', the callback of the write, or the 'end' that
\* the timer of the release forwards
RunsReleaseStream ==
    \/ NewSignal({"readable", "end", "ack"})
    \/ NewSignal({"data"}) /\ stream.flowing # "true"
    \/ stream.timerPending /\ ~stream'.timerPending /\ stream.endCalled

(***************************************************************************)
(* C33: _initializeStream keeps at most one pending error. An error that   *)
(* arrives after the release is stored, replacing one that is still        *)
(* pending; a pending error leaves the slot only in a step that runs       *)
(* releaseStream() (a readable, end or write-acknowledgement signal),      *)
(* which emits exactly that error and leaves the slot empty; so of two     *)
(* errors with no such signal between them only the later one is           *)
(* re-emitted.                                                             *)
(***************************************************************************)
C33_OnePendingError ==
    [][/\ Len(stream'.errorReceived) <= 1
       /\ (NewSignal({"error"}) /\ stream.streamReleased)
             => stream'.errorReceived = Last(signals').payload
       /\ (~NewSignal({"error"}) /\ stream'.errorReceived # stream.errorReceived)
             => /\ RunsReleaseStream
                /\ stream.errorReceived # <<>>
       /\ (~NewSignal({"error"}) /\ NewConsumerErrors # <<>>)
             => /\ RunsReleaseStream
                /\ stream.errorReceived # <<>>
                /\ NewConsumerErrors = <<ErrorEvent(stream.errorReceived[1])>>
       /\ RunsReleaseStream
             => /\ stream'.errorReceived = <<>>
                /\ (attached /\ stream.errorReceived # <<>>)
                      => NewConsumerErrors =
                            <<ErrorEvent(stream.errorReceived[1])>>
      ]_vars

\* two errors arrived one after the other on the released stream, the next
\* signal was a 'readable', and the slot is empty again
C33_Witness ==
    /\ stream.errorReceived = <<>>
    /\ attached
    /\ \E i \in 1..(Len(signals) - 2) :
          /\ signals[i].type = "error" /\ signals[i].released
          /\ signals[i].attached
          /\ signals[i + 1].type = "error"
          /\ signals[i + 2].type = "readable"
          /\ Len(SelectSeq(consumerEvents,
                 LAMBDA e : e = ErrorEvent(signals[i].payload[1]))) = 1
          /\ Len(SelectSeq(consumerEvents,
                 LAMBDA e : e = ErrorEvent(signals[i + 1].payload[1]))) = 2

C35_CallsSettle ==
    /\ [][/\ Len(begins') <= Budget'
          /\ invocations' <= Attempts(allowRetries')]_vars
    /\ (tpc # "idle") ~> (tpc = "done" /\ txOutcome.state # "pending")
    /\ (rpc # "idle") ~> (rpc = "done" /\ reqOutcome.state # "pending")

\* a transaction with the default budget was rejected after all of its
\* attempts failed at the commit
C35_Witness ==
    /\ tpc = "done"
    /\ optMaxAttempts = 0
    /\ Len(begins) = defaultAttempts
    /\ AllRejected(commits)
    /\ txOutcome.state = "rejected"

====
